---- MODULE Spec2Model ----
(***************************************************************************)
(* Session capture coordinator (IntegratedCaptureService), its batch       *)
(* writers (BatchWriter / SessionBatchWriters) and the loader of the route *)
(* analysis engine, as a state machine.  One action per public operation;  *)
(* every action is the whole call, including the calls it makes.           *)
(*                                                                         *)
(* Environment inputs (drawn with \E in the actions):                      *)
(*   - the probe id returned by generate_probe_id (a draw from a finite id *)
(*     space: uuid4().hex[:8] is a random 32-bit value, not a counter);    *)
(*   - whether the model forward pass raises;                              *)
(*   - which layers the capture hooks stored data for;                     *)
(*   - which file, if any, cannot be written during the call.              *)
(***************************************************************************)
EXTENDS Integers, Sequences, FiniteSets, TLC

(***************************************************************************)
(* Bounds of the model.                                                    *)
(***************************************************************************)
\* capture attempts (completed_pairs + failed_pairs) explored per session
MaxAttempts == 3
\* size of the space generate_probe_id draws from
NumProbeIds == 2
\* records a BatchWriter accumulates before it flushes by itself
batch_size == 2

SessionIds == {"session_a"}
ProbeIds == 1..NumProbeIds

\* layers_to_capture of the service, in list order
layers_to_capture == <<0, 1>>
Layers == {layers_to_capture[i] : i \in 1..Len(layers_to_capture)}

\* the four BatchWriters of SessionBatchWriters, in flush_all order
WriterOrder == <<"tokens", "routing", "expert_internal", "expert_output">>
WriterNames == {WriterOrder[i] : i \in 1..Len(WriterOrder)}
NoFault == "none"
Faults == WriterNames \cup {NoFault}

\* SessionState
ACTIVE == "active"
COMPLETED == "completed"
FAILED == "failed"
PAUSED == "paused"
SessionState == {ACTIVE, COMPLETED, FAILED, PAUSED}

(***************************************************************************)
(* Tokenizer: number of tokens tokenizer.encode returns for a word.        *)
(***************************************************************************)
Words == {"the", "cat", "doghouse"}
TokenCount(word) == IF word = "doghouse" THEN 2 ELSE 1

EmptyBuffers == [w \in WriterNames |-> <<>>]

VARIABLES
    active_sessions,   \* dict session_id -> SessionStatus (in memory)
    session_writers,   \* dict session_id -> SessionBatchWriters (in memory)
    routing_capture,   \* TRUE iff self.routing_capture holds registered hooks
    session_files,     \* _sessions/<id>.json : dict session_id -> metadata
    data_lake,         \* <id>/<writer>.parquet : dict session_id -> rows per file
    manifests,         \* <id>/capture_manifest.parquet : dict session_id -> row
    added,             \* history: every record handed to add_record, per writer
    last_call,         \* the last call made to the service and its outcome
    calc               \* a component exercised on its own: its state, the
                       \* last call made to it, the arguments and the result

vars == <<active_sessions, session_writers, routing_capture, session_files,
          data_lake, manifests, added, last_call, calc>>

\* dict helpers
Put(d, k, v) == [x \in DOMAIN d \cup {k} |-> IF x = k THEN v ELSE d[x]]
Del(d, k) == [x \in DOMAIN d \ {k} |-> d[x]]

(***************************************************************************)
(* Python values.  An Optional value is None or a value.  A dict is the    *)
(* sequence of its items [key, value] in insertion order, keys distinct;   *)
(* two dicts are equal when they hold the same items, in any order.        *)
(***************************************************************************)
None == [is_none |-> TRUE, value |-> <<>>]
Some(v) == [is_none |-> FALSE, value |-> v]
\* bool(x) for an Optional[dict] or Optional[str]: None and empty are false
Truthy(o) == ~o.is_none /\ o.value # <<>>

Range(seq) == {seq[i] : i \in 1..Len(seq)}
Keys(d) == {d[i].key : i \in 1..Len(d)}
\* d[k]
Get(d, k) == d[CHOOSE i \in 1..Len(d) : d[i].key = k].value
\* d[k] = v
SetItem(d, k, v) ==
    IF k \in Keys(d)
    THEN [i \in 1..Len(d) |-> IF d[i].key = k THEN [key |-> k, value |-> v]
                                              ELSE d[i]]
    ELSE Append(d, [key |-> k, value |-> v])
\* a == b for two dicts
DictEq(a, b) ==
    /\ Keys(a) = Keys(b)
    /\ \A k \in Keys(a) : Get(a, k) = Get(b, k)
\* a == b for two Optional[dict]
OptionalDictEq(a, b) ==
    /\ a.is_none = b.is_none
    /\ ~a.is_none => DictEq(a.value, b.value)

\* json.dumps of an Optional[Dict[str, List[str]]]: the text, as its tokens
RECURSIVE DumpMembers(_)
DumpMembers(d) ==
    IF d = <<>>
    THEN <<>>
    ELSE <<d[1].key, "[">> \o d[1].value \o <<"]">> \o DumpMembers(Tail(d))

json_dumps(o) ==
    IF o.is_none THEN <<"null">> ELSE <<"{">> \o DumpMembers(o.value) \o <<"}">>

\* json.loads of such a text: members are read left to right, a repeated
\* key keeps its place and takes the later value
CloseAt(tokens, i) ==
    CHOOSE j \in i..Len(tokens) :
        tokens[j] = "]" /\ \A k \in i..(j - 1) : tokens[k] # "]"

RECURSIVE LoadMembers(_, _, _)
LoadMembers(tokens, i, acc) ==
    IF tokens[i] = "}"
    THEN acc
    ELSE LET close == CloseAt(tokens, i + 2)
         IN  LoadMembers(tokens, close + 1,
                         SetItem(acc, tokens[i],
                                 SubSeq(tokens, i + 2, close - 1)))

json_loads(tokens) ==
    IF tokens = <<"null">> THEN None ELSE Some(LoadMembers(tokens, 2, <<>>))

(***************************************************************************)
(* BatchWriter: a buffer of records in memory and the rows of its file.    *)
(* fails = the write of this file raises during the present call.          *)
(***************************************************************************)
\* a flush that empties the buffer even when the write raises
flush_clears_on_failure(records, file, fails) ==
    IF records = <<>>
    THEN [records |-> records, file |-> file, raised |-> FALSE]
    ELSE IF fails
         THEN [records |-> <<>>, file |-> file, raised |-> TRUE]
         ELSE [records |-> <<>>, file |-> file \o records, raised |-> FALSE]

\* BatchWriter.flush.  A write that raises leaves the rows of the file as
\* they were.
flush(records, file, fails) ==
    IF records = <<>>
    THEN [records |-> records, file |-> file, raised |-> FALSE]
    ELSE IF fails
         THEN [records |-> records, file |-> file, raised |-> TRUE]
         ELSE [records |-> <<>>, file |-> file \o records, raised |-> FALSE]

\* an add_record that flushes only once the buffer exceeds the batch size
add_record_flush_late(records, file, record, fails) ==
    LET appended == Append(records, record)
    IN  IF Len(appended) > batch_size
        THEN flush(appended, file, fails)
        ELSE [records |-> appended, file |-> file, raised |-> FALSE]

\* BatchWriter.add_record
add_record(records, file, record, fails) ==
    LET appended == Append(records, record)
    IN  IF Len(appended) >= batch_size
        THEN flush(appended, file, fails)
        ELSE [records |-> appended, file |-> file, raised |-> FALSE]

(***************************************************************************)
(* A store is what SessionBatchWriters works on for one session:           *)
(*   records[w]  buffer of writer w       files[w]  rows of w's file       *)
(*   active      writers_active           log[w]    records given to add   *)
(*   raised      the call raised                                           *)
(***************************************************************************)
\* one add_record call on writer w of the store
AddTo(st, w, record, fault) ==
    LET r == add_record(st.records[w], st.files[w], record, fault = w)
    IN  [st EXCEPT !.records[w] = r.records,
                   !.files[w] = r.file,
                   !.log[w] = Append(st.log[w], record),
                   !.raised = r.raised]

\* the add_record calls of write_probe_data, in order, up to the first raise
RECURSIVE WriteItems(_, _, _)
WriteItems(st, items, fault) ==
    IF items = <<>> \/ st.raised
    THEN st
    ELSE WriteItems(AddTo(st, items[1].writer, items[1].record, fault),
                    Tail(items), fault)

Tag(w, recs) == [i \in 1..Len(recs) |-> [writer |-> w, record |-> recs[i]]]

\* SessionBatchWriters.write_probe_data
write_probe_data(st, probe_data, fault) ==
    IF ~st.active
    THEN [st EXCEPT !.raised = TRUE]
    ELSE WriteItems(st,
                    <<[writer |-> "tokens", record |-> probe_data.token_record]>>
                      \o Tag("routing", probe_data.routing_records)
                      \o Tag("expert_internal", probe_data.expert_internal_records)
                      \o Tag("expert_output", probe_data.expert_output_records),
                    fault)

\* the flush calls of flush_all, in order, up to the first raise
RECURSIVE FlushFrom(_, _, _)
FlushFrom(st, order, fault) ==
    IF order = <<>> \/ st.raised
    THEN st
    ELSE LET w == order[1]
             r == flush(st.records[w], st.files[w], fault = w)
         IN  FlushFrom([st EXCEPT !.records[w] = r.records,
                                  !.files[w] = r.file,
                                  !.raised = r.raised],
                       Tail(order), fault)

\* SessionBatchWriters.flush_all
flush_all(st, fault) ==
    IF ~st.active THEN st ELSE FlushFrom(st, WriterOrder, fault)

\* close_all that marks the writers inactive without flushing them
close_all_no_flush(st, fault) ==
    IF ~st.active THEN st ELSE [st EXCEPT !.active = FALSE]

\* SessionBatchWriters.close_all
close_all(st, fault) ==
    IF ~st.active
    THEN st
    ELSE LET f == flush_all(st, fault)
         IN  IF f.raised THEN f ELSE [f EXCEPT !.active = FALSE]

(***************************************************************************)
(* Schema constructors.  A Python call raises TypeError when it passes a   *)
(* keyword the function does not declare or omits a required parameter.    *)
(***************************************************************************)
CallAccepted(keywords, params, required) ==
    keywords \subseteq params /\ required \subseteq keywords

\* the signature of create_routing_record
create_routing_record_params ==
    {"probe_id", "layer", "routing_weights", "routing_aux_loss", "captured_at"}
create_routing_record_required ==
    {"probe_id", "layer", "routing_weights", "routing_aux_loss"}
\* the keywords _convert_to_schemas passes to it
routing_call_keywords ==
    {"probe_id", "layer", "token_position", "routing_weights"}

create_token_record(probe_id, context, target) ==
    [probe_id |-> probe_id, context_text |-> context, target_text |-> target]

LayerRecord(probe_id, layer, token_position) ==
    [probe_id |-> probe_id, layer |-> layer, token_position |-> token_position]

\* what the hooks stored for the forward pass of one probe
HookData == [routing : SUBSET Layers, activation : SUBSET Layers,
             internal : SUBSET Layers]

\* the loop over layers_to_capture of _convert_to_schemas
RECURSIVE ConvertLayers(_, _, _, _)
ConvertLayers(layers, probe_id, hook, acc) ==
    IF layers = <<>> \/ acc.raised
    THEN acc
    ELSE LET layer == layers[1]
         IN  IF layer \notin hook.routing
             THEN ConvertLayers(Tail(layers), probe_id, hook, acc)
             ELSE IF ~CallAccepted(routing_call_keywords,
                                   create_routing_record_params,
                                   create_routing_record_required)
             THEN [acc EXCEPT !.raised = TRUE]
             ELSE ConvertLayers(Tail(layers), probe_id, hook,
                    [acc EXCEPT
                       !.routing_records = @ \o
                           <<LayerRecord(probe_id, layer, 0),
                             LayerRecord(probe_id, layer, 1)>>,
                       !.expert_internal_records = @ \o
                           (IF layer \in hook.internal
                            THEN <<LayerRecord(probe_id, layer, 0),
                                   LayerRecord(probe_id, layer, 1)>>
                            ELSE <<>>),
                       !.expert_output_records = @ \o
                           (IF layer \in hook.activation
                            THEN <<LayerRecord(probe_id, layer, 0),
                                   LayerRecord(probe_id, layer, 1)>>
                            ELSE <<>>)])

\* IntegratedCaptureService._convert_to_schemas
convert_to_schemas(probe_id, context, target, hook) ==
    ConvertLayers(layers_to_capture, probe_id, hook,
                  [raised |-> FALSE,
                   token_record |-> create_token_record(probe_id, context, target),
                   routing_records |-> <<>>,
                   expert_internal_records |-> <<>>,
                   expert_output_records |-> <<>>])

(***************************************************************************)
(* The service.  A world w is the value of all the state the service and   *)
(* its files hold; every operation below is the whole method: it maps a    *)
(* world and the call's inputs to the world after the call and the call's  *)
(* outcome (raised, error) as the caller sees it.                          *)
(***************************************************************************)
World == [active_sessions |-> active_sessions,
          session_writers |-> session_writers,
          routing_capture |-> routing_capture,
          session_files |-> session_files,
          data_lake |-> data_lake,
          manifests |-> manifests,
          added |-> added]

\* the store of session s: its writers, its files and the add history
Store(w, s) ==
    [records |-> w.session_writers[s].records,
     active |-> w.session_writers[s].writers_active,
     files |-> w.data_lake[s],
     log |-> w.added[s],
     raised |-> FALSE]

WithStore(w, s, st) ==
    [w EXCEPT !.session_writers[s] = [records |-> st.records,
                                      writers_active |-> st.active],
              !.data_lake[s] = st.files,
              !.added[s] = st.log]

Outcome(w, raised, error, forward, probe_ids) ==
    [w |-> w, raised |-> raised, error |-> error, forward |-> forward,
     probe_ids |-> probe_ids]

\* IntegratedCaptureService has no method _restore_session: the call at
\* capture_single_pair line 289 raises AttributeError
restore_session_defined == FALSE

\* a state test that lets every session held in memory through
CaptureAcceptsAnyState(status) == status.state \in SessionState

\* the state test of capture_single_pair (lines 295-297)
CaptureAccepts(status) == status.state = ACTIVE

\* a to_parquet_dict that serializes the maps with a cut-off of one label
\* per word
to_parquet_dict_first_label(m) ==
    LET first(o) == Some([i \in 1..Len(o.value) |->
                            [key |-> o.value[i].key,
                             value |-> IF o.value[i].value = <<>> THEN <<>>
                                       ELSE <<o.value[i].value[1]>>]])
    IN  [m EXCEPT
           !.context_category_assignments =
               IF Truthy(@) THEN Some(json_dumps(first(@))) ELSE None,
           !.target_category_assignments =
               IF Truthy(@) THEN Some(json_dumps(first(@))) ELSE None]

\* CaptureManifest.to_parquet_dict: the row written to the manifest file
to_parquet_dict(m) ==
    [m EXCEPT
       !.context_category_assignments =
           IF Truthy(@) THEN Some(json_dumps(@)) ELSE None,
       !.target_category_assignments =
           IF Truthy(@) THEN Some(json_dumps(@)) ELSE None]

\* CaptureManifest.from_parquet_dict
from_parquet_dict(data) ==
    [data EXCEPT
       !.context_category_assignments =
           IF Truthy(@) THEN json_loads(@.value) ELSE None,
       !.target_category_assignments =
           IF Truthy(@) THEN json_loads(@.value) ELSE None]

\* IntegratedCaptureService.create_session; the metadata file holds the
\* JSON text of the two category maps
create_session(w, s, contexts, targets, context_category_assignments, target_category_assignments) ==
    IF contexts = <<>> \/ targets = <<>>
    THEN Outcome(w, TRUE, "ValueError", FALSE, <<>>)
    ELSE LET total_pairs == Len(contexts) * Len(targets)
         IN  Outcome(
               [w EXCEPT
                  !.active_sessions = Put(@, s,
                      [state |-> ACTIVE, total_pairs |-> total_pairs,
                       completed_pairs |-> 0, failed_pairs |-> 0]),
                  !.session_writers = Put(@, s,
                      [records |-> EmptyBuffers, writers_active |-> TRUE]),
                  !.data_lake = Put(@, s, EmptyBuffers),
                  !.added = Put(@, s, EmptyBuffers),
                  !.session_files = Put(@, s,
                      [state |-> ACTIVE, contexts |-> contexts,
                       targets |-> targets, total_pairs |-> total_pairs,
                       context_category_assignments |->
                           json_dumps(context_category_assignments),
                       target_category_assignments |->
                           json_dumps(target_category_assignments),
                       has_counts |-> FALSE,
                       completed_pairs |-> 0, failed_pairs |-> 0])],
               FALSE, "", FALSE, <<>>)

\* an except branch that re-raises without counting the failure
CaptureFailedUncounted(w, s, error, forward) ==
    Outcome(w, TRUE, error, forward, <<>>)

\* the except branch of capture_single_pair (lines 351-358)
CaptureFailed(w, s, error, forward) ==
    Outcome([w EXCEPT !.active_sessions[s].failed_pairs = @ + 1],
            TRUE, error, forward, <<>>)

\* a try block that tokenizes only after the forward pass
CaptureBodyTokenizesLate(w, s, context, target, in) ==
    LET w1 == [w EXCEPT !.routing_capture = TRUE]
    IN  IF in.forward_raises
        THEN CaptureFailed(w1, s, "ModelError", TRUE)
        ELSE IF TokenCount(context) # 1 \/ TokenCount(target) # 1
        THEN CaptureFailed(w1, s, "ValueError", TRUE)
        ELSE Outcome(w1, FALSE, "", TRUE, <<in.probe_id>>)

\* the try block of capture_single_pair (lines 303-349); in.forward_raises,
\* in.hook and in.fault are what the model and the file system do
CaptureBody(w, s, context, target, in) ==
    LET w1 == [w EXCEPT !.routing_capture = TRUE]
    IN  IF TokenCount(context) # 1 \/ TokenCount(target) # 1
        THEN CaptureFailed(w1, s, "ValueError", FALSE)
        ELSE IF in.forward_raises
        THEN CaptureFailed(w1, s, "ModelError", TRUE)
        ELSE LET probe_data == convert_to_schemas(in.probe_id, context,
                                                  target, in.hook)
             IN  IF probe_data.raised
                 THEN CaptureFailed(w1, s, "TypeError", TRUE)
                 ELSE LET st == write_probe_data(Store(w1, s), probe_data,
                                                 in.fault)
                          w2 == WithStore(w1, s, st)
                      IN  IF st.raised
                          THEN CaptureFailed(w2, s, "WriteError", TRUE)
                          ELSE Outcome(
                                 [w2 EXCEPT
                                    !.active_sessions[s].completed_pairs = @ + 1],
                                 FALSE, "", TRUE, <<in.probe_id>>)

\* IntegratedCaptureService.capture_single_pair
capture_single_pair(w, s, context, target, in) ==
    IF s \notin DOMAIN w.active_sessions
    THEN IF s \in DOMAIN w.session_files
         THEN IF w.session_files[s].state = ACTIVE
              THEN IF restore_session_defined
                   THEN Outcome(w, TRUE, "NotModelled", FALSE, <<>>)
                   ELSE Outcome(w, TRUE, "AttributeError", FALSE, <<>>)
              ELSE Outcome(w, TRUE, "ValueError", FALSE, <<>>)
         ELSE Outcome(w, TRUE, "ValueError", FALSE, <<>>)
    ELSE IF ~CaptureAccepts(w.active_sessions[s])
    THEN Outcome(w, TRUE, "ValueError", FALSE, <<>>)
    ELSE CaptureBody(w, s, context, target, in)

\* IntegratedCaptureService._cleanup_routing_capture
cleanup_routing_capture(w) == [w EXCEPT !.routing_capture = FALSE]

\* create_capture_manifest as finalize_session calls it, with the metadata
\* read back from the session file (json.load)
create_capture_manifest(metadata, probe_count) ==
    [contexts |-> metadata.contexts, targets |-> metadata.targets,
     layers_captured |-> layers_to_capture, probe_count |-> probe_count,
     context_category_assignments |->
         json_loads(metadata.context_category_assignments),
     target_category_assignments |->
         json_loads(metadata.target_category_assignments)]

\* the membership test of finalize_session (lines 504-505)
FinalizeAccepts(w, s) == s \in DOMAIN w.active_sessions

\* the except branch of finalize_session (lines 560-564)
FinalizeFailed(w, s, error) ==
    Outcome([w EXCEPT !.active_sessions[s].state = FAILED],
            TRUE, error, FALSE, <<>>)

\* the update of finalize_session without the removal of the session from
\* active_sessions and session_writers
FinalizeCompletedKeepsSession(w, s) ==
    LET status == w.active_sessions[s]
    IN  cleanup_routing_capture(
          [w EXCEPT !.active_sessions[s].state = COMPLETED,
                    !.session_files[s].state = COMPLETED,
                    !.session_files[s].has_counts = TRUE,
                    !.session_files[s].completed_pairs =
                        status.completed_pairs,
                    !.session_files[s].failed_pairs = status.failed_pairs])

\* the state and metadata update and the cleanup of finalize_session
\* (lines 542-558)
FinalizeCompleted(w, s) ==
    LET status == w.active_sessions[s]
        w1 == [w EXCEPT !.session_files[s].state = COMPLETED,
                        !.session_files[s].has_counts = TRUE,
                        !.session_files[s].completed_pairs =
                            status.completed_pairs,
                        !.session_files[s].failed_pairs = status.failed_pairs]
        w2 == [w1 EXCEPT !.active_sessions = Del(@, s),
                         !.session_writers = Del(@, s)]
    IN  cleanup_routing_capture(w2)

\* IntegratedCaptureService.finalize_session; fault names the file whose
\* write raises during the call: a record file, "manifest" or "metadata"
finalize_session(w, s, fault) ==
    IF ~FinalizeAccepts(w, s)
    THEN Outcome(w, TRUE, "ValueError", FALSE, <<>>)
    ELSE LET st == close_all(Store(w, s), fault)
             w1 == WithStore(w, s, st)
             manifest == create_capture_manifest(
                             w.session_files[s],
                             w.active_sessions[s].completed_pairs)
             w2 == [w1 EXCEPT !.manifests =
                                  Put(@, s, to_parquet_dict(manifest))]
         IN  IF st.raised
             THEN FinalizeFailed(w1, s, "WriteError")
             ELSE IF fault = "manifest"
             THEN FinalizeFailed(w1, s, "WriteError")
             ELSE IF fault = "metadata"
             THEN FinalizeFailed(w2, s, "WriteError")
             ELSE Outcome(FinalizeCompleted(w2, s), FALSE, "", FALSE, <<>>)

\* the inner loop of _aggregate_word_sources that drops the labels a word
\* already has
RECURSIVE AddLabelsOverwriting(_, _, _)
AddLabelsOverwriting(category_assignments, words, label) ==
    IF words = <<>>
    THEN category_assignments
    ELSE AddLabelsOverwriting(SetItem(category_assignments, words[1], <<label>>),
                              Tail(words), label)

\* the inner loop of _aggregate_word_sources (lines 686-690)
RECURSIVE AddLabels(_, _, _)
AddLabels(category_assignments, words, label) ==
    IF words = <<>>
    THEN category_assignments
    ELSE LET word == words[1]
             had == IF word \in Keys(category_assignments)
                    THEN Get(category_assignments, word) ELSE <<>>
             has == IF label \in Range(had) THEN had ELSE Append(had, label)
         IN  AddLabels(SetItem(category_assignments, word, has),
                       Tail(words), label)

\* the loop over the sources (lines 678-690); a source is what
\* _mine_from_source returns for it: the word list and the category label
RECURSIVE AggregateLoop(_, _, _)
AggregateLoop(word_sources, all_words, category_assignments) ==
    IF word_sources = <<>>
    THEN [all_words |-> all_words,
          category_assignments |-> category_assignments]
    ELSE AggregateLoop(Tail(word_sources),
                       all_words \o word_sources[1].words,
                       AddLabels(category_assignments, word_sources[1].words,
                                 word_sources[1].label))

\* list(set(all_words)): the words of the set, each once, in an order the
\* interpreter chooses
ListOfSet(S) ==
    {seq \in [1..Cardinality(S) -> S] : Range(seq) = S}

\* IntegratedCaptureService._aggregate_word_sources, for one such order
aggregate_word_sources(word_sources, unique_words) ==
    [unique_words |-> unique_words,
     category_assignments |->
         AggregateLoop(word_sources, <<>>, <<>>).category_assignments]

\* the orders list(set(all_words)) can come out in
UniqueWordOrders(word_sources) ==
    ListOfSet(Range(AggregateLoop(word_sources, <<>>, <<>>).all_words))

\* IntegratedCaptureService.create_session_from_sources
create_session_from_sources(w, s, context_sources, target_sources, context_order, target_order) ==
    LET c == aggregate_word_sources(context_sources, context_order)
        t == aggregate_word_sources(target_sources, target_order)
    IN  create_session(w, s, c.unique_words, t.unique_words,
                       Some(c.category_assignments),
                       Some(t.category_assignments))

\* IntegratedCaptureService.abort_session
abort_session(w, s, fault) ==
    IF s \in DOMAIN w.active_sessions
    THEN LET w1 == [w EXCEPT !.active_sessions[s].state = FAILED]
         IN  IF s \in DOMAIN w1.session_writers
             THEN LET st == close_all(Store(w1, s), fault)
                      w2 == WithStore(w1, s, st)
                  IN  IF st.raised
                      THEN Outcome(w2, TRUE, "WriteError", FALSE, <<>>)
                      ELSE Outcome(
                             cleanup_routing_capture(
                               [w2 EXCEPT !.session_writers = Del(@, s),
                                          !.active_sessions = Del(@, s)]),
                             FALSE, "", FALSE, <<>>)
             ELSE Outcome(
                    cleanup_routing_capture(
                      [w1 EXCEPT !.active_sessions = Del(@, s)]),
                    FALSE, "", FALSE, <<>>)
    ELSE Outcome(cleanup_routing_capture(w), FALSE, "", FALSE, <<>>)

\* the cross product of capture_session_batch, in loop order
RECURSIVE Pairs(_, _)
Pairs(contexts, targets) ==
    IF contexts = <<>>
    THEN <<>>
    ELSE [i \in 1..Len(targets) |-> <<contexts[1], targets[i]>>]
           \o Pairs(Tail(contexts), targets)

\* the loop of capture_session_batch (lines 477-484): acc.w is the world so
\* far, acc.probe_ids the successful_probes list
RECURSIVE BatchLoop(_, _, _, _)
BatchLoop(acc, s, pairs, plan) ==
    IF pairs = <<>>
    THEN acc
    ELSE LET o == capture_single_pair(acc.w, s, pairs[1][1], pairs[1][2],
                                      plan[1])
         IN  BatchLoop([w |-> o.w,
                        probe_ids |-> acc.probe_ids \o o.probe_ids,
                        forward |-> acc.forward \/ o.forward,
                        attempted |-> Append(acc.attempted, pairs[1]),
                        swallowed |-> acc.swallowed \o
                            (IF o.raised THEN <<o.error>> ELSE <<>>)],
                       s, Tail(pairs), Tail(plan))

\* IntegratedCaptureService.capture_session_batch
capture_session_batch(w, s, plan, fault) ==
    IF s \notin DOMAIN w.session_files
    THEN [w |-> w, raised |-> TRUE, error |-> "ValueError", forward |-> FALSE,
          probe_ids |-> <<>>, attempted |-> <<>>, swallowed |-> <<>>]
    ELSE LET metadata == w.session_files[s]
             done == BatchLoop([w |-> w, probe_ids |-> <<>>, forward |-> FALSE,
                                attempted |-> <<>>, swallowed |-> <<>>],
                               s, Pairs(metadata.contexts, metadata.targets),
                               plan)
             fin == finalize_session(done.w, s, fault)
         IN  [w |-> fin.w, raised |-> fin.raised, error |-> fin.error,
              forward |-> done.forward,
              probe_ids |-> IF fin.raised THEN <<>> ELSE done.probe_ids,
              attempted |-> done.attempted, swallowed |-> done.swallowed]

\* what get_session_status returns for a session it finds
status_of(w, s) ==
    IF s \in DOMAIN w.active_sessions
    THEN w.active_sessions[s]
    ELSE [state |-> w.session_files[s].state,
          total_pairs |-> w.session_files[s].total_pairs,
          completed_pairs |-> IF w.session_files[s].has_counts
                              THEN w.session_files[s].completed_pairs ELSE 0,
          failed_pairs |-> IF w.session_files[s].has_counts
                           THEN w.session_files[s].failed_pairs ELSE 0]

\* IntegratedCaptureService.get_session_status: found iff in memory or on disk
status_found(w, s) ==
    s \in DOMAIN w.active_sessions \/ s \in DOMAIN w.session_files

\* a loader that reads the token file before the routing file
load_session_data_tokens_first(w, s) ==
    IF s \notin DOMAIN w.data_lake
    THEN [raised |-> TRUE, error |-> "ValueError", opened |-> {}]
    ELSE IF w.data_lake[s]["tokens"] = <<>>
    THEN [raised |-> TRUE, error |-> "FileNotFoundError", opened |-> {}]
    ELSE IF w.data_lake[s]["routing"] = <<>>
    THEN [raised |-> TRUE, error |-> "FileNotFoundError",
          opened |-> {"tokens"}]
    ELSE [raised |-> FALSE, error |-> "",
          opened |-> {"routing", "tokens"} \cup
                     (IF s \in DOMAIN w.manifests THEN {"manifest"} ELSE {})]

\* ExpertRouteAnalysisService._load_session_data: the record files the query
\* opens, in order, up to the first file that is missing
load_session_data(w, s) ==
    IF s \notin DOMAIN w.data_lake
    THEN [raised |-> TRUE, error |-> "ValueError", opened |-> {}]
    ELSE IF w.data_lake[s]["routing"] = <<>>
    THEN [raised |-> TRUE, error |-> "FileNotFoundError", opened |-> {}]
    ELSE IF w.data_lake[s]["tokens"] = <<>>
    THEN [raised |-> TRUE, error |-> "FileNotFoundError",
          opened |-> {"routing"}]
    ELSE [raised |-> FALSE, error |-> "",
          opened |-> {"routing", "tokens"} \cup
                     (IF s \in DOMAIN w.manifests THEN {"manifest"} ELSE {})]

(***************************************************************************)
(* Inputs of the calls.                                                    *)
(***************************************************************************)
ContextLists == {<<>>, <<"the">>}
TargetLists == {<<"cat">>, <<"cat", "doghouse">>}
\* the (context, target) arguments capture_single_pair is called with
CapturePairs == {<<"the", "cat">>, <<"the", "doghouse">>, <<"doghouse", "cat">>}

AllHooks == [routing |-> Layers, activation |-> Layers, internal |-> Layers]
NoHooks == [routing |-> {}, activation |-> {}, internal |-> {}]
HookOutcomes == {AllHooks, NoHooks}
\* the files whose write may raise during a capture
CaptureFaults == {NoFault, "tokens", "routing"}

ForwardRaises == [probe_id |-> 1, forward_raises |-> TRUE, hook |-> NoHooks,
                  fault |-> NoFault]

\* what the model and the file system do during one capture: the probe id
\* drawn, whether the forward pass raises, what the hooks stored, and the
\* file whose write raises.  A forward pass that raises stores nothing.
CaptureInputs ==
    [probe_id : ProbeIds, forward_raises : {FALSE},
     hook : {NoHooks}, fault : CaptureFaults]
    \cup [probe_id : ProbeIds, forward_raises : {FALSE},
          hook : {AllHooks}, fault : {NoFault, "routing"}]
    \cup {ForwardRaises}

\* the part of it a batch is explored with
BatchInputs == {in \in CaptureInputs : in.fault \in {NoFault, "tokens"}}

\* the file whose write raises during finalize_session
FinalizeFaults == {NoFault, "tokens", "routing", "manifest", "metadata"}

NoStatus == [state |-> "none", total_pairs |-> 0, completed_pairs |-> 0,
             failed_pairs |-> 0]

\* a call and what its caller sees: whether it raised and with what, the
\* probe ids it returned, the status it returned; and what it did: whether
\* it ran a forward pass, the pairs it attempted, the errors it caught and
\* did not re-raise, the files it opened for reading
Call(op, s, o, attempted, opened, status) ==
    [op |-> op, sid |-> s, raised |-> o.raised, error |-> o.error,
     forward |-> o.forward, probe_ids |-> o.probe_ids,
     attempted |-> attempted, swallowed |-> <<>>, opened |-> opened,
     status |-> status]

\* the world after the call becomes the state
Becomes(w) ==
    /\ active_sessions' = w.active_sessions
    /\ session_writers' = w.session_writers
    /\ routing_capture' = w.routing_capture
    /\ session_files' = w.session_files
    /\ data_lake' = w.data_lake
    /\ manifests' = w.manifests
    /\ added' = w.added

\* a capture of this pair gets as far as the forward pass; when it does not,
\* the inputs are not read and one value of them stands for all
ReadsInputs(s, pair) ==
    /\ s \in DOMAIN active_sessions
    /\ CaptureAccepts(active_sessions[s])
    /\ TokenCount(pair[1]) = 1
    /\ TokenCount(pair[2]) = 1

Attempts(s) ==
    IF s \in DOMAIN active_sessions
    THEN active_sessions[s].completed_pairs + active_sessions[s].failed_pairs
    ELSE 0

\* no component is exercised on its own
NoCalc == [op |-> "none"]

\* the service as constructed, before any call
ServiceConstructed ==
    /\ active_sessions = << >>
    /\ session_writers = << >>
    /\ routing_capture = FALSE
    /\ session_files = << >>
    /\ data_lake = << >>
    /\ manifests = << >>
    /\ added = << >>
    /\ last_call = Call("init", "", Outcome(World, FALSE, "", FALSE, <<>>),
                        <<>>, {}, NoStatus)

Init ==
    /\ ServiceConstructed
    /\ calc = NoCalc

\* generate_capture_id returns an id no session has yet
CreateSession(s, contexts, targets) ==
    /\ UNCHANGED calc
    /\ s \notin DOMAIN session_files
    /\ LET o == create_session(World, s, contexts, targets, None, None)
       IN  /\ Becomes(o.w)
           /\ last_call' = Call("create_session", s, o, <<>>, {}, NoStatus)

CaptureSinglePair(s, context, target, in) ==
    /\ UNCHANGED calc
    /\ Attempts(s) < MaxAttempts
    /\ ReadsInputs(s, <<context, target>>) \/ in = ForwardRaises
    /\ LET o == capture_single_pair(World, s, context, target, in)
       IN  /\ Becomes(o.w)
           /\ last_call' = Call("capture_single_pair", s, o,
                                <<<<context, target>>>>, {}, NoStatus)

\* plan[i] is what the model and the file system do for the i-th pair
CaptureSessionBatch(s, fault) ==
    /\ UNCHANGED calc
    /\ s \in DOMAIN session_files
    /\ Attempts(s) + session_files[s].total_pairs <= MaxAttempts
    /\ \E plan \in [1..session_files[s].total_pairs -> BatchInputs] :
          LET pairs == Pairs(session_files[s].contexts,
                             session_files[s].targets)
              o == capture_session_batch(World, s, plan, fault)
          IN  /\ \A i \in 1..Len(pairs) :
                    ReadsInputs(s, pairs[i]) \/ plan[i] = ForwardRaises
              /\ Becomes(o.w)
              /\ last_call' = [Call("capture_session_batch", s, o,
                                    o.attempted, {}, NoStatus)
                                 EXCEPT !.swallowed = o.swallowed]

FinalizeSession(s, fault) ==
    LET o == finalize_session(World, s, fault)
    IN  /\ Becomes(o.w)
        /\ last_call' = Call("finalize_session", s, o, <<>>, {}, NoStatus)
        /\ UNCHANGED calc

AbortSession(s, fault) ==
    LET o == abort_session(World, s, fault)
    IN  /\ Becomes(o.w)
        /\ last_call' = Call("abort_session", s, o, <<>>, {}, NoStatus)
        /\ UNCHANGED calc

GetSessionStatus(s) ==
    /\ UNCHANGED <<active_sessions, session_writers, routing_capture,
                   session_files, data_lake, manifests, added, calc>>
    /\ last_call' =
         IF status_found(World, s)
         THEN Call("get_session_status", s,
                   Outcome(World, FALSE, "", FALSE, <<>>), <<>>, {},
                   status_of(World, s))
         ELSE Call("get_session_status", s,
                   Outcome(World, TRUE, "ValueError", FALSE, <<>>), <<>>, {},
                   NoStatus)

\* the load step of ExpertRouteAnalysisService.analyze_session_routes
AnalyzeSessionRoutes(s) ==
    /\ UNCHANGED <<active_sessions, session_writers, routing_capture,
                   session_files, data_lake, manifests, added, calc>>
    /\ LET l == load_session_data(World, s)
       IN  last_call' = Call("analyze_session_routes", s,
                             Outcome(World, l.raised, l.error, FALSE, <<>>),
                             <<>>, l.opened, NoStatus)

\* the process ends and a new IntegratedCaptureService is constructed over
\* the same data lake: memory is lost, files stay
Restart ==
    /\ active_sessions # << >>
    /\ active_sessions' = << >>
    /\ session_writers' = << >>
    /\ routing_capture' = FALSE
    /\ UNCHANGED <<session_files, data_lake, manifests, added, calc>>
    /\ last_call' = Call("restart", "", Outcome(World, FALSE, "", FALSE, <<>>),
                         <<>>, {}, NoStatus)

Next ==
    \/ \E s \in SessionIds, c \in ContextLists, t \in TargetLists :
          CreateSession(s, c, t)
    \/ \E s \in SessionIds, p \in CapturePairs, in \in CaptureInputs :
          CaptureSinglePair(s, p[1], p[2], in)
    \/ \E s \in SessionIds, f \in FinalizeFaults : CaptureSessionBatch(s, f)
    \/ \E s \in SessionIds, f \in FinalizeFaults : FinalizeSession(s, f)
    \/ \E s \in SessionIds, f \in Faults : AbortSession(s, f)
    \/ \E s \in SessionIds : GetSessionStatus(s)
    \/ \E s \in SessionIds : AnalyzeSessionRoutes(s)
    \/ Restart

Spec == Init /\ [][Next]_vars

\* the service is not called while a component is exercised on its own
ServiceIdle ==
    UNCHANGED <<active_sessions, session_writers, routing_capture,
                session_files, data_lake, manifests, added, last_call>>

(***************************************************************************)
(* Sessions created from word sources and then finalized.                  *)
(***************************************************************************)
\* sources per word list
MaxSources == 2
\* what _mine_from_source returns for the sources of a request
WordSources ==
    {[words |-> <<"the">>, label |-> "determiner"],
     [words |-> <<"the", "cat">>, label |-> "pos_pure_n"],
     [words |-> <<"cat", "cat">>, label |-> "animals"],
     [words |-> <<"cat">>, label |-> "pos_pure_n"],
     [words |-> <<>>, label |-> "custom"]}
ContextSourceLists ==
    UNION {[1..n -> WordSources] : n \in 0..MaxSources}
TargetSourceLists ==
    {<<>>, <<[words |-> <<"cat">>, label |-> "animals"]>>,
     <<[words |-> <<"cat", "the">>, label |-> "animals"],
       [words |-> <<"cat">>, label |-> "pets"]>>}

CategoriesInit ==
    /\ ServiceConstructed
    /\ calc = [op |-> "sources"]

CreateSessionFromSources(s, context_sources, target_sources) ==
    /\ s \notin DOMAIN session_files
    /\ \E context_order \in UniqueWordOrders(context_sources),
          target_order \in UniqueWordOrders(target_sources) :
          LET o == create_session_from_sources(
                       World, s, context_sources, target_sources,
                       context_order, target_order)
          IN  /\ Becomes(o.w)
              /\ last_call' = Call("create_session_from_sources", s, o,
                                   <<>>, {}, NoStatus)
    /\ calc' = [op |-> "create_session_from_sources",
                context_sources |-> context_sources,
                target_sources |-> target_sources]

CategoriesNext ==
    \/ \E s \in SessionIds, c \in ContextSourceLists,
          t \in TargetSourceLists : CreateSessionFromSources(s, c, t)
    \/ \E s \in SessionIds, f \in FinalizeFaults : FinalizeSession(s, f)

SpecCategories == CategoriesInit /\ [][CategoriesNext]_vars

(***************************************************************************)
(* CaptureManifest on its own: a manifest is serialized to its row and the *)
(* row is read back.                                                       *)
(***************************************************************************)
\* labels per word
MaxLabels == 2
CategoryLabels == {"determiners", "animals"}
LabelLists == UNION {[1..n -> CategoryLabels] : n \in 0..MaxLabels}
\* Dict[str, List[str]] over the words "the" and "cat"
CategoryMaps ==
    {<<>>}
    \cup {<<[key |-> k, value |-> l]>> : k \in {"the", "cat"}, l \in LabelLists}
    \cup {<<[key |-> k[1], value |-> l1], [key |-> k[2], value |-> l2]>> :
             k \in {<<"the", "cat">>, <<"cat", "the">>},
             l1 \in LabelLists, l2 \in LabelLists}
OptionalCategoryMaps == {None} \cup {Some(d) : d \in CategoryMaps}
TargetCategoryMaps ==
    {None, Some(<<>>),
     Some(<<[key |-> "cat", value |-> <<"animals", "determiners">>]>>)}
\* the manifests create_capture_manifest can build
Manifests ==
    {[contexts |-> <<"the">>, targets |-> <<"cat">>,
      layers_captured |-> layers_to_capture, probe_count |-> 1,
      context_category_assignments |-> c,
      target_category_assignments |-> t] :
        c \in OptionalCategoryMaps, t \in TargetCategoryMaps}

ManifestInit ==
    /\ ServiceConstructed
    /\ \E m \in Manifests : calc = [op |-> "CaptureManifest", m |-> m]

ManifestToParquetDict ==
    /\ calc.op = "CaptureManifest"
    /\ calc' = [op |-> "to_parquet_dict", m |-> calc.m,
                row |-> to_parquet_dict(calc.m)]
    /\ ServiceIdle

ManifestFromParquetDict ==
    /\ calc.op = "to_parquet_dict"
    /\ calc' = [op |-> "from_parquet_dict", m |-> calc.m, row |-> calc.row,
                back |-> from_parquet_dict(calc.row)]
    /\ ServiceIdle

ManifestNext ==
    \/ ManifestToParquetDict
    \/ ManifestFromParquetDict

SpecManifest == ManifestInit /\ [][ManifestNext]_vars

(***************************************************************************)
(* BatchWriter on its own: one writer, any sequence of add_record and      *)
(* flush calls, any of whose writes may raise, and of flush_all and        *)
(* close_all calls of the SessionBatchWriters that owns it.                *)
(*   calc.records  self.records        calc.file  rows of the file         *)
(*   calc.log      every record given to add_record, in call order         *)
(*   calc.active   writers_active      calc.was_active  its value before   *)
(***************************************************************************)
\* records given to one writer
MaxRecords == 4
RecordValues == {"r1", "r2"}

WriterInit ==
    /\ ServiceConstructed
    /\ calc = [op |-> "BatchWriter", records |-> <<>>, file |-> <<>>,
               log |-> <<>>, raised |-> FALSE, had_failure |-> FALSE,
               active |-> TRUE, was_active |-> TRUE]

WriterAddRecord(record, fails) ==
    /\ Len(calc.log) < MaxRecords
    /\ LET r == add_record(calc.records, calc.file, record, fails)
       IN  calc' = [op |-> "add_record", records |-> r.records,
                    file |-> r.file, log |-> Append(calc.log, record),
                    raised |-> r.raised,
                    had_failure |-> calc.had_failure \/ r.raised,
                    active |-> calc.active, was_active |-> calc.active]
    /\ ServiceIdle

WriterFlush(fails) ==
    /\ LET r == flush(calc.records, calc.file, fails)
       IN  calc' = [op |-> "flush", records |-> r.records, file |-> r.file,
                    log |-> calc.log, raised |-> r.raised,
                    had_failure |-> calc.had_failure \/ r.raised,
                    active |-> calc.active, was_active |-> calc.active]
    /\ ServiceIdle

\* the store of the SessionBatchWriters whose tokens writer is the writer
WriterStore ==
    [records |-> [w \in WriterNames |->
                     IF w = "tokens" THEN calc.records ELSE <<>>],
     files |-> [w \in WriterNames |-> IF w = "tokens" THEN calc.file ELSE <<>>],
     log |-> [w \in WriterNames |-> IF w = "tokens" THEN calc.log ELSE <<>>],
     active |-> calc.active, raised |-> FALSE]

WriterFlushAll(fails) ==
    /\ LET r == flush_all(WriterStore, IF fails THEN "tokens" ELSE NoFault)
       IN  calc' = [op |-> "flush_all", records |-> r.records["tokens"],
                    file |-> r.files["tokens"], log |-> calc.log,
                    raised |-> r.raised,
                    had_failure |-> calc.had_failure \/ r.raised,
                    active |-> r.active, was_active |-> calc.active]
    /\ ServiceIdle

WriterCloseAll(fails) ==
    /\ LET r == close_all(WriterStore, IF fails THEN "tokens" ELSE NoFault)
       IN  calc' = [op |-> "close_all", records |-> r.records["tokens"],
                    file |-> r.files["tokens"], log |-> calc.log,
                    raised |-> r.raised,
                    had_failure |-> calc.had_failure \/ r.raised,
                    active |-> r.active, was_active |-> calc.active]
    /\ ServiceIdle

WriterNext ==
    \/ \E record \in RecordValues, fails \in BOOLEAN :
          WriterAddRecord(record, fails)
    \/ \E fails \in BOOLEAN : WriterFlush(fails)
    \/ \E fails \in BOOLEAN : WriterFlushAll(fails)
    \/ \E fails \in BOOLEAN : WriterCloseAll(fails)

SpecWriter == WriterInit /\ [][WriterNext]_vars

(***************************************************************************)
(* Route analysis.  A route signature "L0E1→L1E0" is the sequence of its   *)
(* parts, a part being its layer, its letter and its id.  A fraction       *)
(* count / total is the pair of its numerator and denominator.  Confidence *)
(* scores (floating-point means) are left out of the routes.               *)
(***************************************************************************)
SignaturePart(layer, letter, id) == [layer |-> layer, letter |-> letter, id |-> id]
Fraction(num, den) == [num |-> num, den |-> den]

\* RoutingRecord.from_parquet_dict: the fields of a RoutingRecord that the
\* analysis reads; a RoutingRecord has no token_position
RoutingRecord_from_parquet_dict(data) ==
    [probe_id |-> data.probe_id, layer |-> data.layer,
     expert_top1_id |-> data.expert_top1_id]

\* whether reading attribute name of object r succeeds (else AttributeError)
HasAttr(r, name) == name \in DOMAIN r

\* sorted(records, key=lambda r: r.layer): stable
RECURSIVE SortedByLayer(_)
SortedByLayer(records) ==
    IF records = <<>>
    THEN <<>>
    ELSE LET r == records[Len(records)]
             front == SortedByLayer(SubSeq(records, 1, Len(records) - 1))
             k == Cardinality({i \in 1..Len(front) : front[i].layer <= r.layer})
         IN  SubSeq(front, 1, k) \o <<r>> \o SubSeq(front, k + 1, Len(front))

\* sorted(window_layers)
RECURSIVE sorted(_)
sorted(layers) ==
    IF layers = <<>>
    THEN <<>>
    ELSE LET x == layers[Len(layers)]
             front == sorted(SubSeq(layers, 1, Len(layers) - 1))
             k == Cardinality({i \in 1..Len(front) : front[i] <= x})
         IN  SubSeq(front, 1, k) \o <<x>> \o SubSeq(front, k + 1, Len(front))

\* schemas.routing.highway_signature
highway_signature_params == {"routing_records"}
highway_signature(routing_records) ==
    LET sorted_records == SortedByLayer(routing_records)
    IN  IF routing_records = <<>>
        THEN [raised |-> FALSE, signature |-> <<>>]
        ELSE IF \E i \in 2..Len(sorted_records) :
                   sorted_records[i].layer # sorted_records[i - 1].layer + 1
        THEN [raised |-> TRUE, signature |-> <<>>]
        ELSE [raised |-> FALSE,
              signature |->
                  [i \in 1..Len(sorted_records) |->
                      SignaturePart(sorted_records[i].layer, "E",
                                    sorted_records[i].expert_top1_id)]]

\* {t.probe_id: t for t in token_records}
RECURSIVE TokenByProbe(_)
TokenByProbe(token_records) ==
    IF token_records = <<>>
    THEN <<>>
    ELSE LET t == token_records[Len(token_records)]
         IN  SetItem(TokenByProbe(SubSeq(token_records, 1,
                                         Len(token_records) - 1)),
                     t.probe_id, t)

\* the end of the loop body of both extractions: the probe is added to the
\* route of its signature
AddToRoute(routes, signature, probe_id, token_by_probe) ==
    LET had == IF signature \in Keys(routes)
               THEN Get(routes, signature)
               ELSE [tokens |-> <<>>, count |-> 0]
        tokens == IF probe_id \in Keys(token_by_probe)
                  THEN Append(had.tokens,
                         [context |-> Get(token_by_probe, probe_id).context_text,
                          target |-> Get(token_by_probe, probe_id).target_text,
                          probe_id |-> probe_id])
                  ELSE had.tokens
    IN  SetItem(routes, signature,
                [tokens |-> tokens, count |-> had.count + 1])

\* the keys of routing_by_probe, in insertion order
RECURSIVE ProbeOrder(_)
ProbeOrder(routing_records) ==
    IF routing_records = <<>>
    THEN <<>>
    ELSE LET front == ProbeOrder(SubSeq(routing_records, 1,
                                        Len(routing_records) - 1))
             probe_id == routing_records[Len(routing_records)].probe_id
         IN  IF probe_id \in Range(front) THEN front
             ELSE Append(front, probe_id)

\* the loop of ExpertRouteAnalysisService._extract_target_routes over the
\* probes; the call of highway_signature passes target_tokens_only
RECURSIVE ExpertRoutesLoop(_, _, _, _, _)
ExpertRoutesLoop(probes, routing_records, token_by_probe, window_layers, routes) ==
    IF probes = <<>>
    THEN [raised |-> FALSE, error |-> "", routes |-> routes]
    ELSE LET probe_id == probes[1]
             OfProbe(r) == r.probe_id = probe_id
             probe_routing == SelectSeq(routing_records, OfProbe)
             IsTarget(r) == r.token_position = 1 /\ r.layer \in Range(window_layers)
             target_routing == SelectSeq(probe_routing, IsTarget)
             h == highway_signature(target_routing)
             rest == Tail(probes)
         IN  IF \E i \in 1..Len(probe_routing) :
                   ~HasAttr(probe_routing[i], "token_position")
             THEN [raised |-> TRUE, error |-> "AttributeError", routes |-> <<>>]
             ELSE IF Len(target_routing) # Len(window_layers)
             THEN ExpertRoutesLoop(rest, routing_records, token_by_probe,
                                   window_layers, routes)
             ELSE IF ~CallAccepted({"routing_records", "target_tokens_only"},
                                   highway_signature_params,
                                   highway_signature_params)
             THEN [raised |-> TRUE, error |-> "TypeError", routes |-> <<>>]
             ELSE IF h.raised
             THEN ExpertRoutesLoop(rest, routing_records, token_by_probe,
                                   window_layers, routes)
             ELSE ExpertRoutesLoop(rest, routing_records, token_by_probe,
                                   window_layers,
                                   AddToRoute(routes, h.signature, probe_id,
                                              token_by_probe))

\* ExpertRouteAnalysisService._extract_target_routes
extract_target_routes(routing_records, token_records, window_layers) ==
    ExpertRoutesLoop(ProbeOrder(routing_records), routing_records,
                     TokenByProbe(token_records), window_layers, <<>>)

\* the loop of ClusterRouteAnalysisService._extract_target_cluster_routes
\* over the items of cluster_assignments
RECURSIVE ClusterRoutesLoop(_, _, _, _)
ClusterRoutesLoop(items, token_by_probe, window_layers, routes) ==
    IF items = <<>>
    THEN routes
    ELSE LET probe_id == items[1].key
             layer_clusters == items[1].value
             layers == sorted(window_layers)
             signature == [i \in 1..Len(layers) |->
                              SignaturePart(layers[i], "C",
                                            layer_clusters[layers[i]])]
         IN  IF ~(\A layer \in Range(window_layers) :
                      layer \in DOMAIN layer_clusters)
             THEN ClusterRoutesLoop(Tail(items), token_by_probe,
                                    window_layers, routes)
             ELSE ClusterRoutesLoop(Tail(items), token_by_probe,
                                    window_layers,
                                    AddToRoute(routes, signature, probe_id,
                                               token_by_probe))

\* ClusterRouteAnalysisService._extract_target_cluster_routes
extract_target_cluster_routes(cluster_assignments, token_records, window_layers) ==
    ClusterRoutesLoop(cluster_assignments, TokenByProbe(token_records),
                      window_layers, <<>>)

\* sorted(routes.items(), key=count, reverse=True): stable, items with equal
\* counts stay in the order of the dict
RECURSIVE SortedByCount(_)
SortedByCount(items) ==
    IF items = <<>>
    THEN <<>>
    ELSE LET x == items[Len(items)]
             front == SortedByCount(SubSeq(items, 1, Len(items) - 1))
             k == Cardinality({i \in 1..Len(front) :
                                  front[i].value.count >= x.value.count})
         IN  SubSeq(front, 1, k) \o <<x>> \o SubSeq(front, k + 1, Len(front))

\* seq[:n]
SliceTo(seq, n) ==
    IF n >= 0
    THEN SubSeq(seq, 1, IF n < Len(seq) THEN n ELSE Len(seq))
    ELSE SubSeq(seq, 1, IF Len(seq) + n > 0 THEN Len(seq) + n ELSE 0)

\* sum(r["count"] for r in routes.values())
RECURSIVE SumCounts(_)
SumCounts(routes) ==
    IF routes = <<>> THEN 0
    ELSE routes[1].value.count + SumCounts(Tail(routes))

\* the unique examples of a route, up to 5, by context and target
RECURSIVE UniqueExamples(_, _)
UniqueExamples(tokens, unique_examples) ==
    IF tokens = <<>>
    THEN unique_examples
    ELSE LET key == <<tokens[1].context, tokens[1].target>>
             has == IF key \in Keys(unique_examples) THEN unique_examples
                    ELSE SetItem(unique_examples, key, tokens[1])
         IN  IF Len(has) >= 5 THEN has
             ELSE UniqueExamples(Tail(tokens), has)

\* a top-routes computation whose coverage is taken over the returned
\* routes only
analyze_top_routes_of_top(routes, top_n) ==
    LET sorted_routes == SliceTo(SortedByCount(routes), top_n)
        total_count == SumCounts(sorted_routes)
    IN  [i \in 1..Len(sorted_routes) |->
            [signature |-> sorted_routes[i].key,
             count |-> sorted_routes[i].value.count,
             coverage |-> IF total_count > 0
                          THEN Fraction(sorted_routes[i].value.count, total_count)
                          ELSE Fraction(0, 1),
             example_tokens |->
                 LET u == UniqueExamples(sorted_routes[i].value.tokens, <<>>)
                 IN  [j \in 1..Len(u) |-> u[j].value]]]

\* _analyze_top_routes of both services
analyze_top_routes(routes, top_n) ==
    LET sorted_routes == SliceTo(SortedByCount(routes), top_n)
        total_count == SumCounts(routes)
    IN  [i \in 1..Len(sorted_routes) |->
            [signature |-> sorted_routes[i].key,
             count |-> sorted_routes[i].value.count,
             coverage |-> IF total_count > 0
                          THEN Fraction(sorted_routes[i].value.count, total_count)
                          ELSE Fraction(0, 1),
             example_tokens |->
                 LET u == UniqueExamples(sorted_routes[i].value.tokens, <<>>)
                 IN  [j \in 1..Len(u) |-> u[j].value]]]

\* ExpertRouteAnalysisService._calculate_statistics
calculate_statistics(routes, routing_records, window_layers) ==
    LET unique_probes ==
            {routing_records[i].probe_id :
                i \in {j \in 1..Len(routing_records) :
                          /\ routing_records[j].token_position = 1
                          /\ routing_records[j].layer \in Range(window_layers)}}
        total_probes == Cardinality(unique_probes)
    IN  IF \E i \in 1..Len(routing_records) :
              ~HasAttr(routing_records[i], "token_position")
        THEN [raised |-> TRUE, error |-> "AttributeError"]
        ELSE [raised |-> FALSE, error |-> "",
              total_routes |-> Len(routes),
              total_probes |-> total_probes,
              routes_coverage |-> IF total_probes > 0
                                  THEN Fraction(SumCounts(routes), total_probes)
                                  ELSE Fraction(0, 1),
              window_layers |-> window_layers]

\* ClusterRouteAnalysisService._calculate_statistics
calculate_cluster_statistics(routes, cluster_assignments, window_layers) ==
    LET unique_probes ==
            {cluster_assignments[i].key :
                i \in {j \in 1..Len(cluster_assignments) :
                          \A layer \in Range(window_layers) :
                              layer \in DOMAIN cluster_assignments[j].value}}
        total_probes == Cardinality(unique_probes)
    IN  [raised |-> FALSE, error |-> "",
         total_routes |-> Len(routes),
         total_probes |-> total_probes,
         routes_coverage |-> IF total_probes > 0
                             THEN Fraction(SumCounts(routes), total_probes)
                             ELSE Fraction(0, 1),
         window_layers |-> window_layers]

\* ExpertRouteAnalysisService.analyze_session_routes after its load step,
\* without a filter: the first step that raises ends the call
analyze_session_routes(routing_records, token_records, window_layers, top_n_routes) ==
    LET e == extract_target_routes(routing_records, token_records, window_layers)
        st == calculate_statistics(e.routes, routing_records, window_layers)
    IN  IF e.raised
        THEN [raised |-> TRUE, error |-> e.error, routes |-> <<>>,
              top_routes |-> <<>>, statistics |-> [raised |-> TRUE]]
        ELSE IF st.raised
        THEN [raised |-> TRUE, error |-> st.error, routes |-> e.routes,
              top_routes |-> <<>>, statistics |-> [raised |-> TRUE]]
        ELSE [raised |-> FALSE, error |-> "", routes |-> e.routes,
              top_routes |-> analyze_top_routes(e.routes, top_n_routes),
              statistics |-> st]

(***************************************************************************)
(* The route analyses on their own: the expert analysis of the routing     *)
(* records of a session, and the cluster extraction, top routes and        *)
(* statistics of a set of cluster assignments.                             *)
(***************************************************************************)
\* routing records in the routing file
MaxRoutingRecords == 3
AnalysisProbes == <<"p1", "p2", "p3">>
ExpertIds == {0, 1}
ClusterIds == {0, 1}
\* the window_layers of a request
WindowChoices == {<<>>, <<0>>, <<1>>, <<0, 1>>, <<1, 0>>, <<0, 0>>}
\* the top_n_routes of a request
TopNChoices == {-1, 0, 1, 2, 20}

\* the rows of a routing file
RoutingRows ==
    [probe_id : {"p1", "p2"}, layer : {0, 1}, expert_top1_id : ExpertIds]
RoutingFiles ==
    {<<>>}
    \cup {<<[probe_id |-> "p1", layer |-> 0, expert_top1_id |-> a],
            [probe_id |-> "p1", layer |-> 1, expert_top1_id |-> b]>> :
              a \in ExpertIds, b \in ExpertIds}
    \cup {f \in [1..MaxRoutingRecords -> RoutingRows] :
              \A i \in 1..MaxRoutingRecords, j \in 1..MaxRoutingRecords :
                  (f[i].probe_id = f[j].probe_id /\ f[i].layer = f[j].layer)
                      => i = j}

\* the token records of the session
TokenFiles ==
    {<<>>,
     <<create_token_record("p1", "the", "cat"),
       create_token_record("p2", "the", "cat"),
       create_token_record("p3", "a", "cat")>>}

\* what _perform_clustering returns for a window: per probe the cluster id at
\* the window layers it has features for, probes without any left out
LayerClusters(window_layers) ==
    UNION {[L -> ClusterIds] : L \in SUBSET Range(window_layers)}
ClusterAssignments(window_layers) ==
    {LET Assigned(e) == DOMAIN e.value # {}
     IN  SelectSeq([i \in 1..Len(AnalysisProbes) |->
                       [key |-> AnalysisProbes[i], value |-> f[i]]], Assigned) :
        f \in [1..Len(AnalysisProbes) -> LayerClusters(window_layers)]}

AnalysisInit ==
    /\ ServiceConstructed
    /\ calc = [op |-> "analysis"]

AnalyzeRoutes ==
    /\ calc.op = "analysis"
    /\ \E file \in RoutingFiles, token_records \in TokenFiles,
          window_layers \in WindowChoices, top_n_routes \in TopNChoices :
       LET routing_records ==
               [i \in 1..Len(file) |-> RoutingRecord_from_parquet_dict(file[i])]
           o == analyze_session_routes(routing_records, token_records,
                                       window_layers, top_n_routes)
       IN  calc' = [op |-> "analyze_session_routes",
                    routing_records |-> routing_records,
                    token_records |-> token_records,
                    window_layers |-> window_layers, top_n |-> top_n_routes,
                    raised |-> o.raised, error |-> o.error,
                    routes |-> o.routes, top_routes |-> o.top_routes,
                    statistics |-> o.statistics]
    /\ ServiceIdle

ExtractTargetClusterRoutes ==
    /\ calc.op = "analysis"
    /\ \E window_layers \in WindowChoices, token_records \in TokenFiles :
       \E cluster_assignments \in ClusterAssignments(window_layers) :
          calc' = [op |-> "extract_target_cluster_routes",
                   cluster_assignments |-> cluster_assignments,
                   token_records |-> token_records,
                   window_layers |-> window_layers,
                   routes |-> extract_target_cluster_routes(
                                  cluster_assignments, token_records,
                                  window_layers)]
    /\ ServiceIdle

AnalyzeTopRoutes(top_n) ==
    /\ calc.op = "extract_target_cluster_routes"
    /\ calc' = [op |-> "analyze_top_routes",
                cluster_assignments |-> calc.cluster_assignments,
                window_layers |-> calc.window_layers,
                routes |-> calc.routes, top_n |-> top_n,
                top_routes |-> analyze_top_routes(calc.routes, top_n)]
    /\ ServiceIdle

CalculateStatistics ==
    /\ calc.op = "extract_target_cluster_routes"
    /\ calc' = [op |-> "calculate_statistics",
                cluster_assignments |-> calc.cluster_assignments,
                window_layers |-> calc.window_layers,
                routes |-> calc.routes,
                statistics |-> calculate_cluster_statistics(
                                   calc.routes, calc.cluster_assignments,
                                   calc.window_layers)]
    /\ ServiceIdle

AnalysisNext ==
    \/ AnalyzeRoutes
    \/ ExtractTargetClusterRoutes
    \/ \E n \in TopNChoices : AnalyzeTopRoutes(n)
    \/ CalculateStatistics

SpecAnalysis == AnalysisInit /\ [][AnalysisNext]_vars

(***************************************************************************)
(* Filtering and the graph of a route analysis.  A manifest is None (the   *)
(* session has no manifest file) or a CaptureManifest; a filter_config is  *)
(* None or the four lists of the request, an empty list standing for a     *)
(* criterion that is not configured.  Names, specializations, axis         *)
(* distributions and context-target summaries of the nodes are left out.   *)
(***************************************************************************)
\* any(cat in wanted for cat in cats)
AnyIn(cats, wanted) == \E i \in 1..Len(cats) : cats[i] \in Range(wanted)

\* dict.get(word, []) on a category map
CategoriesOf(assignments, word) ==
    IF word \in Keys(assignments) THEN Get(assignments, word) ELSE <<>>

\* the loop body of _apply_filters: whether the token is included
Included(token, manifest, f) ==
    /\ f.context_categories # <<>> =>
          AnyIn(CategoriesOf(manifest.value.context_category_assignments.value,
                             token.context_text), f.context_categories)
    /\ f.target_categories # <<>> =>
          AnyIn(CategoriesOf(manifest.value.target_category_assignments.value,
                             token.target_text), f.target_categories)
    /\ f.context_words # <<>> => token.context_text \in Range(f.context_words)
    /\ f.target_words # <<>> => token.target_text \in Range(f.target_words)

\* _apply_filters of both services; records are the routing records or the
\* PCA feature records.  A category criterion reads the category map of the
\* manifest with .get, which raises when the map is None
apply_filters(records, token_records, manifest, filter_config) ==
    LET f == filter_config.value
        filtered_probe_ids ==
            {token_records[i].probe_id :
                i \in {j \in 1..Len(token_records) :
                          Included(token_records[j], manifest, f)}}
        Kept(r) == r.probe_id \in filtered_probe_ids
    IN  IF manifest.is_none \/ filter_config.is_none
        THEN [raised |-> FALSE, error |-> "", records |-> records,
              token_records |-> token_records]
        ELSE IF /\ token_records # <<>>
                /\ \/ /\ f.context_categories # <<>>
                      /\ manifest.value.context_category_assignments.is_none
                   \/ /\ f.target_categories # <<>>
                      /\ manifest.value.target_category_assignments.is_none
        THEN [raised |-> TRUE, error |-> "AttributeError", records |-> <<>>,
              token_records |-> <<>>]
        ELSE [raised |-> FALSE, error |-> "",
              records |-> SelectSeq(records, Kept),
              token_records |-> SelectSeq(token_records, Kept)]

\* routes that are passed on without the top-N cut
AllRoutesRetained(routes, top_route_signatures) == routes

\* the routes of the top signatures (analyze_session_routes lines 74-76);
\* top_route_signatures is a set, the order of its signatures is open
FilteredRoutes(routes, top_route_signatures) ==
    [i \in 1..Len(top_route_signatures) |->
        [key |-> top_route_signatures[i],
         value |-> Get(routes, top_route_signatures[i])]]

RECURSIVE SumTo(_, _)
SumTo(f, n) == IF n = 0 THEN 0 ELSE f[n] + SumTo(f, n - 1)

\* sum(d.values())
RECURSIVE SumOf(_)
SumOf(d) ==
    IF DOMAIN d = {}
    THEN 0
    ELSE LET x == CHOOSE x \in DOMAIN d : TRUE
         IN  d[x] + SumOf([y \in DOMAIN d \ {x} |-> d[y]])

Occurrences(seq, x) == Cardinality({i \in 1..Len(seq) : seq[i] = x})

\* the target categories of a token's word, cut to the target-category
\* filter when one is configured
TargetCategories(manifest, filter_config, target) ==
    LET all == CategoriesOf(manifest.value.target_category_assignments.value,
                            target)
        Wanted(cat) == cat \in Range(filter_config.value.target_categories)
    IN  IF ~filter_config.is_none /\ filter_config.value.target_categories # <<>>
        THEN SelectSeq(all, Wanted)
        ELSE all

\* how many times the tokens of a route are stored under a category
TokenLabelCount(route, token_lookup, manifest, filter_config, category) ==
    SumTo([t \in 1..Len(route.value.tokens) |->
              IF route.value.tokens[t].probe_id \in Keys(token_lookup)
              THEN Occurrences(
                     TargetCategories(manifest, filter_config,
                        Get(token_lookup,
                            route.value.tokens[t].probe_id).target_text),
                     category)
              ELSE 0],
          Len(route.value.tokens))

\* len(expert_tokens[part][category]) after the loop over the routes
NodeCategoryCount(routes, token_lookup, manifest, filter_config, part, category) ==
    SumTo([r \in 1..Len(routes) |->
              Occurrences(routes[r].key, part)
                * TokenLabelCount(routes[r], token_lookup, manifest,
                                  filter_config, category)],
          Len(routes))

\* route_category_counts[category] of the link source -> target: the routes
\* whose signature is the two parts source and target
LinkCategoryCount(routes, token_lookup, manifest, filter_config, source, target, category) ==
    SumTo([r \in 1..Len(routes) |->
              IF routes[r].key = <<source, target>>
              THEN TokenLabelCount(routes[r], token_lookup, manifest,
                                   filter_config, category)
              ELSE 0],
          Len(routes))

\* a transition count that stops after the first step of a signature
CountStepsFirstOnly(transitions, parts, i, count) ==
    IF Len(parts) < 2 \/ i > 1
    THEN transitions
    ELSE LET row == IF parts[1] \in Keys(transitions)
                    THEN Get(transitions, parts[1]) ELSE <<>>
             had == IF parts[2] \in Keys(row) THEN Get(row, parts[2]) ELSE 0
         IN  SetItem(transitions, parts[1], SetItem(row, parts[2], had + count))

\* the loop over range(len(parts) - 1) that counts the transitions
RECURSIVE CountSteps(_, _, _, _)
CountSteps(transitions, parts, i, count) ==
    IF i >= Len(parts)
    THEN transitions
    ELSE LET row == IF parts[i] \in Keys(transitions)
                    THEN Get(transitions, parts[i]) ELSE <<>>
             had == IF parts[i + 1] \in Keys(row)
                    THEN Get(row, parts[i + 1]) ELSE 0
         IN  CountSteps(SetItem(transitions, parts[i],
                                SetItem(row, parts[i + 1], had + count)),
                        parts, i + 1, count)

\* transitions after the loop over the routes
RECURSIVE Transitions(_, _)
Transitions(routes, transitions) ==
    IF routes = <<>>
    THEN transitions
    ELSE Transitions(Tail(routes),
                     CountSteps(transitions, routes[1].key, 1,
                                routes[1].value.count))

\* the parts in the order of the two sorted loops over layers and ids
RECURSIVE SortedParts(_)
SortedParts(S) ==
    IF S = {}
    THEN <<>>
    ELSE LET m == CHOOSE x \in S :
                     \A y \in S : \/ x.layer < y.layer
                                  \/ x.layer = y.layer /\ x.id <= y.id
         IN  <<m>> \o SortedParts(S \ {m})

\* a dict of counts per category, holding the categories that were counted
CategoryCounts(count_of) ==
    [c \in {d \in DOMAIN count_of : count_of[d] > 0} |-> count_of[c]]

\* the categories the manifest knows for target words
ManifestCategories(manifest) ==
    UNION {Range(manifest.value.target_category_assignments.value[i].value) :
              i \in 1..Len(manifest.value.target_category_assignments.value)}

\* the node of a part (lines 379-434)
SankeyNode(routes, token_lookup, manifest, filter_config, part) ==
    LET Of == [c \in ManifestCategories(manifest) |->
                  NodeCategoryCount(routes, token_lookup, manifest,
                                    filter_config, part, c)]
        category_counts ==
            IF manifest.is_none \/ manifest.value.target_category_assignments.is_none
            THEN << >>
            ELSE CategoryCounts(Of)
    IN  [name |-> part, layer |-> part.layer, expert_id |-> part.id,
         token_count |-> SumOf(category_counts),
         category_distribution |-> category_counts]

\* the links of one source (lines 440-479)
LinksFrom(routes, token_lookup, manifest, filter_config, source, row) ==
    LET total_from_source == SumTo([j \in 1..Len(row) |-> row[j].value], Len(row))
    IN  [j \in 1..Len(row) |->
            LET Of == [c \in ManifestCategories(manifest) |->
                          LinkCategoryCount(routes, token_lookup, manifest,
                                            filter_config, source, row[j].key,
                                            c)]
                route_category_counts ==
                    IF \/ manifest.is_none
                       \/ manifest.value.target_category_assignments.is_none
                    THEN << >>
                    ELSE CategoryCounts(Of)
            IN  [source |-> source, target |-> row[j].key,
                 value |-> row[j].value,
                 probability |-> IF total_from_source > 0
                                 THEN Fraction(row[j].value, total_from_source)
                                 ELSE Fraction(0, 1),
                 category_distribution |-> route_category_counts,
                 token_count |-> SumOf(route_category_counts)]]

RECURSIVE SankeyLinks(_, _, _, _, _)
SankeyLinks(routes, token_lookup, manifest, filter_config, transitions) ==
    IF transitions = <<>>
    THEN <<>>
    ELSE LinksFrom(routes, token_lookup, manifest, filter_config,
                   transitions[1].key, transitions[1].value)
         \o SankeyLinks(routes, token_lookup, manifest, filter_config,
                        Tail(transitions))

\* _build_sankey_data of both services.  Reading the categories of a token
\* (manifest.target_category_assignments.get) raises when there is no
\* manifest or the manifest has no target category map
build_sankey_data(routes, token_records, manifest, filter_config) ==
    LET token_lookup == TokenByProbe(token_records)
        parts == UNION {Range(routes[r].key) : r \in 1..Len(routes)}
        nodes == SortedParts(parts)
    IN  IF /\ \/ manifest.is_none
              \/ manifest.value.target_category_assignments.is_none
           /\ \E r \in 1..Len(routes) :
                 /\ routes[r].key # <<>>
                 /\ \E t \in 1..Len(routes[r].value.tokens) :
                       routes[r].value.tokens[t].probe_id \in Keys(token_lookup)
        THEN [raised |-> TRUE, error |-> "AttributeError",
              nodes |-> <<>>, links |-> <<>>]
        ELSE [raised |-> FALSE, error |-> "",
              nodes |-> [i \in 1..Len(nodes) |->
                            SankeyNode(routes, token_lookup, manifest,
                                       filter_config, nodes[i])],
              links |-> SankeyLinks(routes, token_lookup, manifest,
                                    filter_config,
                                    Transitions(routes, <<>>))]

\* cluster_assignments[probe_id][layer] = cluster_id
AssignCluster(cluster_assignments, probe_id, layer, cluster_id) ==
    LET had == IF probe_id \in Keys(cluster_assignments)
               THEN Get(cluster_assignments, probe_id) ELSE << >>
    IN  SetItem(cluster_assignments, probe_id,
                [l \in DOMAIN had \cup {layer} |->
                    IF l = layer THEN cluster_id ELSE had[l]])

\* the loop that stores the cluster assignments of the records of a layer
RECURSIVE StoreAssignments(_, _, _, _)
StoreAssignments(cluster_assignments, layer_records, layer, labels) ==
    IF layer_records = <<>>
    THEN cluster_assignments
    ELSE StoreAssignments(
             AssignCluster(cluster_assignments, layer_records[1].probe_id,
                           layer, labels[layer_records[1].probe_id]),
             Tail(layer_records), layer, labels)

\* the loop of _perform_clustering over window_layers: a layer without
\* target-position records is passed over, and so is a layer whose
\* clustering raises (the exception is caught and logged)
RECURSIVE ClusteringLoop(_, _, _, _)
ClusteringLoop(pca_records, layers, clusterer, cluster_assignments) ==
    IF layers = <<>>
    THEN cluster_assignments
    ELSE LET layer == layers[1]
             OfLayer(r) == r.token_position = 1 /\ r.layer = layer
             layer_records == SelectSeq(pca_records, OfLayer)
         IN  IF layer_records = <<>> \/ clusterer[layer].raised
             THEN ClusteringLoop(pca_records, Tail(layers), clusterer,
                                 cluster_assignments)
             ELSE ClusteringLoop(pca_records, Tail(layers), clusterer,
                                 StoreAssignments(cluster_assignments,
                                     layer_records, layer,
                                     clusterer[layer].labels))

\* a clustering that stops at the first layer it cannot cluster
perform_clustering_until_failure(pca_records, window_layers, clusterer) ==
    LET Fails(layer) ==
            \/ clusterer[layer].raised
            \/ ~\E i \in 1..Len(pca_records) :
                   /\ pca_records[i].token_position = 1
                   /\ pca_records[i].layer = layer
        first == IF \E i \in 1..Len(window_layers) : Fails(window_layers[i])
                 THEN CHOOSE i \in 1..Len(window_layers) :
                         /\ Fails(window_layers[i])
                         /\ \A j \in 1..(i - 1) : ~Fails(window_layers[j])
                 ELSE Len(window_layers) + 1
    IN  ClusteringLoop(pca_records, SubSeq(window_layers, 1, first - 1),
                       clusterer, <<>>)

\* ClusterRouteAnalysisService._perform_clustering; clusterer is what the
\* clustering library does at each layer: it raises or it labels the records
perform_clustering(pca_records, window_layers, clusterer) ==
    ClusteringLoop(pca_records, window_layers, clusterer, <<>>)

\* ClusterRouteAnalysisService.analyze_session_cluster_routes after its load
\* step: the outcomes of the call.  top_route_signatures is a set, so the
\* order of filtered_routes is any order of the top signatures
analyze_session_cluster_routes(pca_records, token_records, manifest, filter_config, window_layers, clusterer, top_n_routes) ==
    LET f == IF filter_config.is_none
             THEN [raised |-> FALSE, error |-> "", records |-> pca_records,
                   token_records |-> token_records]
             ELSE apply_filters(pca_records, token_records, manifest,
                                filter_config)
        cluster_assignments ==
            perform_clustering(f.records, window_layers, clusterer)
        routes == extract_target_cluster_routes(
                      cluster_assignments, f.token_records, window_layers)
        top_routes == analyze_top_routes(routes, top_n_routes)
    IN  IF f.raised
        THEN {[op |-> "analyze_session_cluster_routes",
               window_layers |-> window_layers,
               raised |-> TRUE, error |-> f.error]}
        ELSE {LET filtered_routes == FilteredRoutes(routes, order)
                  g == build_sankey_data(filtered_routes, f.token_records,
                                         manifest, filter_config)
              IN  [op |-> "analyze_session_cluster_routes",
                   window_layers |-> window_layers,
                   pca_records |-> f.records,
                   token_records |-> f.token_records,
                   manifest |-> manifest,
                   filter_config |-> filter_config,
                   clusterer |-> clusterer,
                   cluster_assignments |-> cluster_assignments,
                   routes |-> routes,
                   top_routes |-> top_routes,
                   filtered_routes |-> filtered_routes,
                   statistics |->
                       calculate_cluster_statistics(routes,
                           cluster_assignments, window_layers),
                   raised |-> g.raised, error |-> g.error,
                   nodes |-> g.nodes, links |-> g.links] :
                 order \in ListOfSet({top_routes[i].signature :
                                         i \in 1..Len(top_routes)})}

(***************************************************************************)
(* The graph of a cluster analysis on its own: the records of a session    *)
(* are filtered, the routes of the cluster assignments of the remaining    *)
(* probes are extracted, the top routes are selected and the graph of      *)
(* their routes is built.                                                  *)
(***************************************************************************)
\* the window_layers of a request
GraphWindows == {<<0>>, <<0, 1>>, <<0, 1, 2>>}
\* the top_n_routes of a request
GraphTopN == {2, 20}
GraphTokens ==
    {<<create_token_record("p1", "the", "cat"),
       create_token_record("p2", "the", "dog"),
       create_token_record("p3", "a", "cat")>>,
     <<create_token_record("p1", "the", "cat")>>}
\* no manifest file, a manifest of a session created from word lists, a
\* manifest of a session created from sources
GraphManifests ==
    {None,
     Some([context_category_assignments |-> None,
           target_category_assignments |-> None]),
     Some([context_category_assignments |->
               Some(<<[key |-> "the", value |-> <<"determiners">>]>>),
           target_category_assignments |->
               Some(<<[key |-> "cat", value |-> <<"animals", "nouns">>],
                      [key |-> "dog", value |-> <<>>]>>)])}
NoCriteria ==
    [context_categories |-> <<>>, target_categories |-> <<>>,
     context_words |-> <<>>, target_words |-> <<>>]
GraphFilters ==
    {None, Some([NoCriteria EXCEPT !.target_categories = <<"nouns">>])}
FilterConfigs ==
    {None}
    \cup {Some([context_categories |-> cc, target_categories |-> tc,
                context_words |-> cw, target_words |-> tw]) :
            cc \in {<<>>, <<"determiners">>},
            tc \in {<<>>, <<"animals">>, <<"verbs">>},
            cw \in {<<>>, <<"the">>},
            tw \in {<<>>, <<"cat">>, <<"dog", "cat">>}}

\* the PCA feature records of the session: the context and the target
\* position of every probe at every layer
GraphPCA ==
    [i \in 1..18 |->
        [probe_id |-> AnalysisProbes[((i - 1) \div 6) + 1],
         layer |-> ((i - 1) \div 2) % 3,
         token_position |-> (i - 1) % 2]]
\* what the clustering library does with the records of each layer: it
\* labels them, the cluster of the first probe being cluster 0
GraphClusterers(layers) ==
    [layers -> [raised : {FALSE},
                labels : {l \in [Range(AnalysisProbes) -> ClusterIds] :
                             l[AnalysisProbes[1]] = 0}]]

GraphInit ==
    /\ ServiceConstructed
    /\ calc = [op |-> "graph"]

AnalyzeClusterRoutes ==
    /\ calc.op = "graph"
    /\ \E window_layers \in GraphWindows, token_records \in GraphTokens,
          manifest \in GraphManifests, filter_config \in GraphFilters,
          top_n_routes \in GraphTopN :
       \E clusterer \in GraphClusterers(Range(window_layers)) :
          calc' \in analyze_session_cluster_routes(GraphPCA, token_records,
                        manifest, filter_config, window_layers, clusterer,
                        top_n_routes)
    /\ ServiceIdle

GraphNext == AnalyzeClusterRoutes

SpecGraph == GraphInit /\ [][GraphNext]_vars

(***************************************************************************)
(* The clustering of a cluster analysis on its own: the PCA feature        *)
(* records of two probes, of which some layers have no target-position     *)
(* records, and a clustering library that raises at some layers.           *)
(***************************************************************************)
ClusteringProbes == {"p1", "p2"}
ClusteringWindows == {<<0, 1>>, <<1, 0>>, <<0, 1, 2>>}
\* the PCA feature records of the session: all of them, all but the
\* target-position record of p2 at layer 1, and all but the target-position
\* records of layer 1
ClusteringAllPCA ==
    [i \in 1..12 |->
        [probe_id |-> AnalysisProbes[((i - 1) \div 6) + 1],
         layer |-> ((i - 1) \div 2) % 3,
         token_position |-> (i - 1) % 2]]
ClusteringRecordSets ==
    LET NotP2AtLayer1(r) ==
            ~(r.probe_id = "p2" /\ r.layer = 1 /\ r.token_position = 1)
        NotTargetAtLayer1(r) == ~(r.layer = 1 /\ r.token_position = 1)
    IN  {ClusteringAllPCA, SelectSeq(ClusteringAllPCA, NotP2AtLayer1),
         SelectSeq(ClusteringAllPCA, NotTargetAtLayer1)}
ClusteringTokens ==
    <<create_token_record("p1", "the", "cat"),
      create_token_record("p2", "the", "dog")>>
\* what the clustering library does with the records of each layer: it
\* raises, or it labels them
Clusterers(layers) ==
    [layers -> [raised : BOOLEAN, labels : [ClusteringProbes -> ClusterIds]]]

ClusteringInit ==
    /\ ServiceConstructed
    /\ calc = [op |-> "clustering"]

PerformClustering ==
    /\ calc.op = "clustering"
    /\ \E window_layers \in ClusteringWindows,
          pca_records \in ClusteringRecordSets,
          manifest \in {m \in GraphManifests :
                           m.is_none
                           \/ ~m.value.target_category_assignments.is_none} :
       \E clusterer \in Clusterers(Range(window_layers)) :
          calc' \in analyze_session_cluster_routes(pca_records,
                        ClusteringTokens, manifest, None, window_layers,
                        clusterer, 20)
    /\ ServiceIdle

ClusteringNext == PerformClustering

SpecClustering == ClusteringInit /\ [][ClusteringNext]_vars

(***************************************************************************)
(* The filter on its own, on the PCA feature records and the token records *)
(* of a session.                                                           *)
(***************************************************************************)
FiltersInit ==
    /\ ServiceConstructed
    /\ calc = [op |-> "filters"]

\* _apply_filters on the records of a session
ApplyFilters ==
    /\ calc.op = "filters"
    /\ \E token_records \in GraphTokens, manifest \in GraphManifests,
          filter_config \in FilterConfigs :
          LET records == GraphPCA
              f == apply_filters(records, token_records, manifest,
                                 filter_config)
          IN  calc' = [op |-> "apply_filters", records |-> records,
                       token_records |-> token_records,
                       manifest |-> manifest, filter_config |-> filter_config,
                       raised |-> f.raised, error |-> f.error,
                       filtered_records |-> f.records,
                       filtered_tokens |-> f.token_records]
    /\ ServiceIdle

FiltersNext == ApplyFilters

SpecFilters == FiltersInit /\ [][FiltersNext]_vars

(***************************************************************************)
(* Properties.                                                             *)
(***************************************************************************)
\* the state get_session_status reports for s ("none": session not found)
StateOf(s) ==
    IF status_found(World, s) THEN status_of(World, s).state ELSE "none"

\* s is held by the coordinator (in active_sessions) in state ACTIVE
HeldActive(s) ==
    s \in DOMAIN active_sessions /\ active_sessions[s].state = ACTIVE

LifecycleOps == {"create_session", "capture_single_pair",
                 "capture_session_batch", "finalize_session", "abort_session"}

Count(rows, probe_id) ==
    Cardinality({i \in 1..Len(rows) : rows[i].probe_id = probe_id})

\* the probe ids that have a record in a file of session s
ProbesInStore(s) ==
    UNION {{data_lake[s][w][i].probe_id : i \in 1..Len(data_lake[s][w])} :
           w \in WriterNames}

\* C1: across create_session, capture_single_pair, capture_session_batch,
\* finalize_session and abort_session calls, a session that is COMPLETED or
\* FAILED keeps that state for ever, and no session is ever PAUSED.
C1_TerminalStatesAreFinal ==
    [][\A s \in SessionIds :
          last_call'.op \in LifecycleOps =>
             /\ StateOf(s) \in {COMPLETED, FAILED} => StateOf(s)' = StateOf(s)
             /\ StateOf(s)' # PAUSED]_vars

\* C2: in a COMPLETED session every probe with a record in the store has
\* exactly one TokenRecord, exactly len(layers) * 2 RoutingRecords and
\* exactly len(layers) * 2 ExpertOutputState records.
C2_ProbeIdentityCompleteness ==
    \A s \in DOMAIN data_lake :
       StateOf(s) = COMPLETED =>
          \A p \in ProbesInStore(s) :
             /\ Count(data_lake[s]["tokens"], p) = 1
             /\ Count(data_lake[s]["routing"], p) = Len(layers_to_capture) * 2
             /\ Count(data_lake[s]["expert_output"], p) =
                   Len(layers_to_capture) * 2

\* C3: whenever a session is COMPLETED, no writer of it holds a buffered
\* record or is still open, every record that was handed to add_record is in
\* its file, in order, and the Manifest file exists.
C3_FinalizeIsBarrier ==
    \A s \in DOMAIN session_files :
       StateOf(s) = COMPLETED =>
          /\ s \in DOMAIN session_writers =>
                /\ ~session_writers[s].writers_active
                /\ session_writers[s].records = EmptyBuffers
          /\ \A w \in WriterNames : data_lake[s][w] = added[s][w]
          /\ s \in DOMAIN manifests

\* C3 witness: a session was finalized after a TokenRecord had been added
\* that no automatic flush had written yet (fewer records than a batch)
C3_Witness ==
    \E s \in DOMAIN session_files :
       /\ StateOf(s) = COMPLETED
       /\ last_call.op = "finalize_session"
       /\ ~last_call.raised
       /\ Len(data_lake[s]["tokens"]) % batch_size # 0

C5_NoCaptureOutsideActive ==
    [][\A s \in SessionIds :
          (/\ last_call'.op = "capture_single_pair"
           /\ last_call'.sid = s
           /\ ~HeldActive(s)) =>
             /\ last_call'.raised
             /\ ~last_call'.forward
             /\ last_call'.probe_ids = <<>>
             /\ UNCHANGED <<active_sessions, session_writers, data_lake,
                            added, session_files, manifests>>]_vars

\* C5 witness: capture_single_pair has just been refused on a session that
\* a failed finalize_session left FAILED with a record still buffered
C5_Witness ==
    /\ last_call.op = "capture_single_pair"
    /\ last_call.raised
    /\ last_call.sid \in DOMAIN active_sessions
    /\ active_sessions[last_call.sid].state = FAILED
    /\ session_writers[last_call.sid].records["tokens"] # <<>>

\* C6: a capture_single_pair call on a session held ACTIVE adds one to
\* completed_pairs and hands the probe's TokenRecord to the writer when it
\* returns, adds one to failed_pairs when it raises, never both and never
\* more; the session stays ACTIVE; and while a session is held, no call
\* lowers either counter.
C6_ExactlyOneCounter ==
    [][\A s \in SessionIds :
          /\ (s \in DOMAIN active_sessions /\ s \in DOMAIN active_sessions') =>
                /\ active_sessions'[s].completed_pairs >=
                      active_sessions[s].completed_pairs
                /\ active_sessions'[s].failed_pairs >=
                      active_sessions[s].failed_pairs
          /\ (/\ HeldActive(s)
              /\ last_call'.op = "capture_single_pair"
              /\ last_call'.sid = s) =>
                /\ s \in DOMAIN active_sessions'
                /\ active_sessions'[s].state = ACTIVE
                /\ IF last_call'.raised
                   THEN /\ active_sessions'[s].failed_pairs =
                              active_sessions[s].failed_pairs + 1
                        /\ active_sessions'[s].completed_pairs =
                              active_sessions[s].completed_pairs
                   ELSE /\ active_sessions'[s].completed_pairs =
                              active_sessions[s].completed_pairs + 1
                        /\ active_sessions'[s].failed_pairs =
                              active_sessions[s].failed_pairs
                        /\ Len(added'[s]["tokens"]) =
                              Len(added[s]["tokens"]) + 1
                        /\ added'[s]["tokens"][Len(added'[s]["tokens"])].probe_id
                              = last_call'.probe_ids[1]]_vars

\* C6 witness: a capture has just succeeded on a session that had a failed
\* capture before and is still ACTIVE
C6_Witness ==
    /\ last_call.op = "capture_single_pair"
    /\ ~last_call.raised
    /\ HeldActive(last_call.sid)
    /\ active_sessions[last_call.sid].failed_pairs >= 1
    /\ active_sessions[last_call.sid].completed_pairs >= 1

\* C7: when capture_session_batch returns, it has attempted every pair of
\* the cross product once and in order, the session is COMPLETED,
\* completed_pairs + failed_pairs equals total_pairs, and it returned as
\* many probe ids as completed_pairs counts.
C7_BatchCompletesCrossProduct ==
    (last_call.op = "capture_session_batch" /\ ~last_call.raised) =>
        LET s == last_call.sid
            status == status_of(World, s)
        IN  /\ last_call.attempted =
                  Pairs(session_files[s].contexts, session_files[s].targets)
            /\ status.state = COMPLETED
            /\ status.completed_pairs + status.failed_pairs =
                  status.total_pairs
            /\ Len(last_call.probe_ids) = status.completed_pairs

\* C8: a session is COMPLETED only with completed_pairs + failed_pairs equal
\* to total_pairs, whichever call completed it.
C8_CompletedOnlyWhenAllAttempted ==
    \A s \in DOMAIN session_files :
        StateOf(s) = COMPLETED =>
            status_of(World, s).completed_pairs
              + status_of(World, s).failed_pairs
              = status_of(World, s).total_pairs

\* C9: a write failure during capture_single_pair or finalize_session
\* leaves the session FAILED, and a capture_session_batch during which a
\* write failed raises that error to its caller.
C9_SessionErrorsFailSession ==
    /\ (/\ last_call.op \in {"capture_single_pair", "finalize_session"}
        /\ last_call.raised
        /\ last_call.error = "WriteError") =>
           StateOf(last_call.sid) = FAILED
    /\ (/\ last_call.op = "capture_session_batch"
        /\ \/ last_call.error = "WriteError"
           \/ \E i \in 1..Len(last_call.swallowed) :
                 last_call.swallowed[i] = "WriteError") =>
           /\ last_call.raised
           /\ last_call.error = "WriteError"
           /\ StateOf(last_call.sid) = FAILED

C12_TokenizationFailureIsPerProbe ==
    [][\A s \in SessionIds :
          (/\ HeldActive(s)
           /\ last_call'.op = "capture_single_pair"
           /\ last_call'.sid = s
           /\ \/ TokenCount(last_call'.attempted[1][1]) # 1
              \/ TokenCount(last_call'.attempted[1][2]) # 1) =>
             /\ last_call'.raised
             /\ last_call'.error = "ValueError"
             /\ ~last_call'.forward
             /\ UNCHANGED <<added, data_lake, session_writers, session_files,
                            manifests>>
             /\ s \in DOMAIN active_sessions'
             /\ active_sessions'[s] =
                   [active_sessions[s] EXCEPT !.failed_pairs = @ + 1]
             /\ active_sessions'[s].state = ACTIVE]_vars

\* C12 witness: a capture of a pair with a two-token word has just failed
\* on a session that holds a buffered record of an earlier probe and that
\* is still ACTIVE
C12_Witness ==
    /\ last_call.op = "capture_single_pair"
    /\ last_call.raised
    /\ \/ TokenCount(last_call.attempted[1][1]) # 1
       \/ TokenCount(last_call.attempted[1][2]) # 1
    /\ HeldActive(last_call.sid)
    /\ active_sessions[last_call.sid].failed_pairs = 1
    /\ active_sessions[last_call.sid].completed_pairs = 1
    /\ session_writers[last_call.sid].records["tokens"] # <<>>

\* the labels of the sources that produced a word
LabelsOf(word_sources, word) ==
    {word_sources[i].label :
        i \in {j \in 1..Len(word_sources) : word \in Range(word_sources[j].words)}}
\* the words the sources produced
WordsOf(word_sources) ==
    UNION {Range(word_sources[i].words) : i \in 1..Len(word_sources)}
\* a word list holds each of these words once, and a category map gives
\* each of them the labels of its sources, each label once
Preserves(word_sources, word_list, category_map) ==
    /\ Range(word_list) = WordsOf(word_sources)
    /\ Len(word_list) = Cardinality(WordsOf(word_sources))
    /\ ~category_map.is_none
    /\ Keys(category_map.value) = WordsOf(word_sources)
    /\ \A word \in WordsOf(word_sources) :
          LET labels == Get(category_map.value, word)
          IN  /\ Range(labels) = LabelsOf(word_sources, word)
              /\ Len(labels) = Cardinality(LabelsOf(word_sources, word))

C14_RoundTripEveryManifest ==
    calc.op = "from_parquet_dict" =>
        /\ OptionalDictEq(calc.back.context_category_assignments,
                          calc.m.context_category_assignments)
        /\ OptionalDictEq(calc.back.target_category_assignments,
                          calc.m.target_category_assignments)

\* what a category map comes back as: an empty map comes back as None
ReadBackAs(o) == IF Truthy(o) THEN o ELSE None

\* C14: for every manifest m, from_parquet_dict(m.to_parquet_dict()) has
\* context and target category maps equal to those of m when the map of m
\* is None or holds at least one word, including words that carry several
\* labels or none; an empty map of m comes back as None.
C14_RoundTripCategoryMaps ==
    calc.op = "from_parquet_dict" =>
        /\ OptionalDictEq(calc.back.context_category_assignments,
                          ReadBackAs(calc.m.context_category_assignments))
        /\ OptionalDictEq(calc.back.target_category_assignments,
                          ReadBackAs(calc.m.target_category_assignments))
        /\ calc.back.contexts = calc.m.contexts
        /\ calc.back.targets = calc.m.targets

\* C14 witness: a manifest whose context map gives "cat" two labels and
\* "the" one, and whose target map is empty, has been read back
C14_Witness ==
    /\ calc.op = "from_parquet_dict"
    /\ ~calc.m.context_category_assignments.is_none
    /\ Keys(calc.m.context_category_assignments.value) = {"the", "cat"}
    /\ Len(Get(calc.m.context_category_assignments.value, "cat")) = 2
    /\ Len(Get(calc.back.context_category_assignments.value, "cat")) = 2
    /\ calc.m.target_category_assignments = Some(<<>>)
    /\ calc.back.target_category_assignments = None

\* C15: get_session_status returns the same state and the same completed,
\* failed and total counts for a session held in memory and, after a
\* restart of the coordinator, for the same session read from its persisted
\* metadata; for a session id that is neither in memory nor on disk it
\* raises the not-found error (ValueError).
C15_StatusSameInMemoryAndFromMetadata ==
    [][/\ last_call'.op = "restart" =>
             \A s \in DOMAIN active_sessions :
                 /\ status_found(World', s)
                 /\ status_of(World', s).state = status_of(World, s).state
                 /\ status_of(World', s).total_pairs =
                        status_of(World, s).total_pairs
                 /\ status_of(World', s).completed_pairs =
                        status_of(World, s).completed_pairs
                 /\ status_of(World', s).failed_pairs =
                        status_of(World, s).failed_pairs
       /\ (last_call'.op = "get_session_status" /\ ~status_found(World, last_call'.sid)) =>
             last_call'.raised /\ last_call'.error = "ValueError"]_vars

\* C16: no two TokenRecords ever share a probe_id, in the same session or
\* across sessions: every probe_id drawn by capture_single_pair differs
\* from the probe_id of every TokenRecord written before.
C16_ProbeIdsAreDistinct ==
    \A s \in DOMAIN added, t \in DOMAIN added :
        \A i \in 1..Len(added[s]["tokens"]), j \in 1..Len(added[t]["tokens"]) :
            added[s]["tokens"][i].probe_id = added[t]["tokens"][j].probe_id =>
                s = t /\ i = j

\* C17: after finalize_session has run for a session, whether it returned or
\* raised, and after abort_session, the coordinator holds no registered
\* capture hooks on the model.
C17_HooksReleased ==
    [][last_call'.op \in {"finalize_session", "abort_session"} =>
          ~routing_capture']_vars

\* the probes of the expert analysis that have a routing record at every
\* layer of the window, and the signature the ids of such a probe spell
RecordsAt(p, layer) ==
    {i \in 1..Len(calc.routing_records) :
        /\ calc.routing_records[i].probe_id = p
        /\ calc.routing_records[i].layer = layer}
FullCoverageProbes ==
    {p \in Range(ProbeOrder(calc.routing_records)) :
        \A layer \in Range(calc.window_layers) : RecordsAt(p, layer) # {}}
IdAt(p, layer) ==
    calc.routing_records[CHOOSE i \in RecordsAt(p, layer) : TRUE].expert_top1_id
ExpectedSignature(p) ==
    LET layers == sorted(calc.window_layers)
    IN  [i \in 1..Len(layers) |-> SignaturePart(layers[i], "E", IdAt(p, layers[i]))]

\* C18: the expert route analysis gives every probe that has an id at each
\* layer of the window a signature that lists the window layers in strictly
\* ascending order with the probe's id at each, whatever the order of the
\* records, and two probes are counted under the same signature if and only
\* if their ids are equal at every layer of the window.
C18_RouteSignature ==
    (calc.op = "analyze_session_routes" /\ calc.window_layers # <<>>) =>
        /\ ~calc.raised
        /\ \A p \in FullCoverageProbes :
              ExpectedSignature(p) \in Keys(calc.routes)
        /\ \A i \in 1..Len(calc.routes) :
              /\ \A j \in 2..Len(calc.routes[i].key) :
                    calc.routes[i].key[j - 1].layer < calc.routes[i].key[j].layer
              /\ calc.routes[i].value.count =
                    Cardinality({p \in FullCoverageProbes :
                                    ExpectedSignature(p) = calc.routes[i].key})

\* the probes of the cluster analysis that have a cluster id at every layer
\* of the window, and the signature the ids of such a probe spell
ClusterFullCoverage ==
    {i \in 1..Len(calc.cluster_assignments) :
        \A layer \in Range(calc.window_layers) :
            layer \in DOMAIN calc.cluster_assignments[i].value}
ClusterSignature(i) ==
    LET layers == sorted(calc.window_layers)
    IN  [j \in 1..Len(layers) |->
            SignaturePart(layers[j], "C",
                          calc.cluster_assignments[i].value[layers[j]])]

\* the statistics of the cluster-indexed variant
ClusterStatisticsCorrect ==
    calc.op = "calculate_statistics" =>
        /\ SumCounts(calc.routes) = Cardinality(ClusterFullCoverage)
        /\ \A r \in 1..Len(calc.routes) :
              calc.routes[r].value.count =
                  Cardinality({i \in ClusterFullCoverage :
                                  ClusterSignature(i) = calc.routes[r].key})
        /\ calc.statistics.total_probes = Cardinality(ClusterFullCoverage)
        /\ calc.statistics.total_routes =
              Cardinality({ClusterSignature(i) : i \in ClusterFullCoverage})
        /\ calc.statistics.routes_coverage =
              IF calc.statistics.total_probes = 0
              THEN Fraction(0, 1)
              ELSE Fraction(SumCounts(calc.routes),
                            calc.statistics.total_probes)

\* the statistics of the expert-indexed variant
ExpertStatisticsCorrect ==
    calc.op = "analyze_session_routes" =>
        /\ ~calc.raised
        /\ SumCounts(calc.routes) = Cardinality(FullCoverageProbes)
        /\ calc.statistics.total_probes = Cardinality(FullCoverageProbes)
        /\ calc.statistics.total_routes =
              Cardinality({ExpectedSignature(p) : p \in FullCoverageProbes})
        /\ calc.statistics.routes_coverage =
              IF calc.statistics.total_probes = 0
              THEN Fraction(0, 1)
              ELSE Fraction(SumCounts(calc.routes),
                            calc.statistics.total_probes)

\* C19: in the expert-indexed and in the cluster-indexed variant a probe
\* contributes to a route only if it has an id at every layer of the window,
\* statistics.total_probes is the number of such probes, total_routes is the
\* number of distinct signatures and routes_coverage is the sum of the route
\* counts over total_probes, 0 when there are no probes.
C19_RouteStatistics ==
    /\ ClusterStatisticsCorrect
    /\ ExpertStatisticsCorrect

\* the place of a signature in the routes, which is the order in which the
\* signatures were first seen
FirstSeen(signature) ==
    CHOOSE i \in 1..Len(calc.routes) : calc.routes[i].key = signature
\* route x ranks before route y: more occurrences, or as many and seen first
RanksBefore(x, y) ==
    \/ calc.routes[x].value.count > calc.routes[y].value.count
    \/ /\ calc.routes[x].value.count = calc.routes[y].value.count
       /\ x < y

GraphReturned == calc.op = "analyze_session_cluster_routes" /\ ~calc.raised

\* the routes whose signature is one of the top-N signatures
RetainedRoutes ==
    {i \in 1..Len(calc.routes) :
        \E j \in 1..Len(calc.top_routes) :
            calc.top_routes[j].signature = calc.routes[i].key}

\* the adjacent-layer steps of a signature
StepsOf(signature) ==
    {<<signature[k], signature[k + 1]>> : k \in 1..(Len(signature) - 1)}

RECURSIVE SumOver(_, _)
SumOver(S, f) ==
    IF S = {} THEN 0
    ELSE LET x == CHOOSE x \in S : TRUE IN f[x] + SumOver(S \ {x}, f)

\* the links of the graph from a to b, and the links leaving a
LinksOf(a, b) ==
    {l \in 1..Len(calc.links) :
        calc.links[l].source = a /\ calc.links[l].target = b}
LinksLeaving(a) == {l \in 1..Len(calc.links) : calc.links[l].source = a}
LinksEntering(b) == {l \in 1..Len(calc.links) : calc.links[l].target = b}
LinkValue == [l \in 1..Len(calc.links) |-> calc.links[l].value]

\* the sum of the counts of the retained routes that contain the step
StepCount(step) ==
    LET CountOf == [i \in 1..Len(calc.routes) |-> calc.routes[i].value.count]
    IN  SumOver({i \in RetainedRoutes : step \in StepsOf(calc.routes[i].key)},
                CountOf)

\* C21: in a returned graph every adjacent-layer step a -> b of a retained
\* (top-N) signature has exactly one link, whose value is the sum of the
\* counts of the retained routes containing the step; every link is a step of
\* a retained route; the probability of a link is its value over the total
\* value of the links leaving its source, so the probabilities of the links
\* leaving a node sum to 1.
C21_LinksOfTopRoutes ==
    GraphReturned =>
        /\ \A i \in RetainedRoutes : \A step \in StepsOf(calc.routes[i].key) :
              /\ Cardinality(LinksOf(step[1], step[2])) = 1
              /\ \A l \in LinksOf(step[1], step[2]) :
                    calc.links[l].value = StepCount(step)
        /\ \A l \in 1..Len(calc.links) :
              /\ \E i \in RetainedRoutes :
                    <<calc.links[l].source, calc.links[l].target>>
                        \in StepsOf(calc.routes[i].key)
              /\ calc.links[l].probability =
                    Fraction(calc.links[l].value,
                             SumOver(LinksLeaving(calc.links[l].source),
                                     LinkValue))
              /\ calc.links[l].probability.den > 0
              /\ LET Num == [k \in 1..Len(calc.links) |->
                                calc.links[k].probability.num]
                 IN  SumOver(LinksLeaving(calc.links[l].source), Num)
                         = calc.links[l].probability.den

\* C21 witness: a returned graph of the top 2 of 3 routes in which a node has
\* two outgoing links and a step of the route that is not retained has no
\* link
C21_Witness ==
    /\ GraphReturned
    /\ Len(calc.routes) = 3
    /\ Cardinality(RetainedRoutes) = 2
    /\ \E l \in 1..Len(calc.links) :
          Cardinality(LinksLeaving(calc.links[l].source)) = 2
    /\ \E i \in 1..Len(calc.routes) : \E step \in StepsOf(calc.routes[i].key) :
          i \notin RetainedRoutes /\ LinksOf(step[1], step[2]) = {}

\* the category labels of a target word that count in the graph: the labels
\* the manifest gives the word, cut to the target-category filter
CountedLabels(word) ==
    LET m == calc.manifest
        labels == IF m.is_none \/ m.value.target_category_assignments.is_none
                  THEN <<>>
                  ELSE CategoriesOf(m.value.target_category_assignments.value,
                                    word)
        Wanted(c) == c \in Range(calc.filter_config.value.target_categories)
    IN  IF /\ ~calc.filter_config.is_none
           /\ calc.filter_config.value.target_categories # <<>>
        THEN SelectSeq(labels, Wanted)
        ELSE labels

\* the tokens of retained route i that carry category c
TokensWith(i, c) ==
    {t \in 1..Len(calc.routes[i].value.tokens) :
        c \in Range(CountedLabels(calc.routes[i].value.tokens[t].target))}

\* the tokens, over the retained routes that make the step, that carry c
StepTokensWith(step, c) ==
    LET n == [i \in 1..Len(calc.routes) |-> Cardinality(TokensWith(i, c))]
    IN  SumOver({i \in RetainedRoutes : step \in StepsOf(calc.routes[i].key)}, n)

DistributionAt(distribution, c) ==
    IF c \in DOMAIN distribution THEN distribution[c] ELSE 0

\* C22: in a returned graph the category distribution of each link a -> b
\* counts, per category, the tokens of every retained route that makes the
\* transition, for a window of any length.
C22_LinkDistribution ==
    GraphReturned =>
        \A l \in 1..Len(calc.links) :
            \A c \in CategoryLabels \cup {"nouns"} :
                DistributionAt(calc.links[l].category_distribution, c)
                    = StepTokensWith(<<calc.links[l].source,
                                       calc.links[l].target>>, c)

\* the parts (layer, id) of the retained signatures
RetainedParts == UNION {Range(calc.routes[i].key) : i \in RetainedRoutes}

\* the tokens of the retained routes that pass through a part
TokensThrough(part) ==
    LET n == [i \in 1..Len(calc.routes) |-> Len(calc.routes[i].value.tokens)]
    IN  SumOver({i \in RetainedRoutes : part \in Range(calc.routes[i].key)}, n)

\* C23: a returned graph has exactly one node per distinct (layer, id) of the
\* retained signatures, and the token_count of a node is the number of tokens
\* of the retained routes that pass through it, whatever the number of
\* category labels of their target words.
C23_NodeTokenCount ==
    GraphReturned =>
        /\ \A part \in RetainedParts :
              Cardinality({n \in 1..Len(calc.nodes) :
                              calc.nodes[n].name = part}) = 1
        /\ \A n \in 1..Len(calc.nodes) :
              /\ calc.nodes[n].name \in RetainedParts
              /\ calc.nodes[n].token_count = TokensThrough(calc.nodes[n].name)

\* the category labels a category map of the manifest gives a word
LabelsIn(manifest, field, word) ==
    IF manifest.is_none THEN <<>>
    ELSE IF manifest.value[field].is_none THEN <<>>
    ELSE CategoriesOf(manifest.value[field].value, word)

\* the token record satisfies every configured criterion of the filter
Satisfies(token, manifest, f) ==
    /\ f.context_categories # <<>> =>
          AnyIn(LabelsIn(manifest, "context_category_assignments",
                         token.context_text), f.context_categories)
    /\ f.target_categories # <<>> =>
          AnyIn(LabelsIn(manifest, "target_category_assignments",
                         token.target_text), f.target_categories)
    /\ f.context_words # <<>> => token.context_text \in Range(f.context_words)
    /\ f.target_words # <<>> => token.target_text \in Range(f.target_words)

\* C24: with a filter configuration the filter returns, and the probes
\* retained are exactly those whose token record satisfies every configured
\* criterion; token records and id-bearing records are kept or dropped by
\* probe_id membership only, unchanged and in their order.
C24_FilterRetainsMatchingProbes ==
    (calc.op = "apply_filters" /\ ~calc.filter_config.is_none) =>
        LET Good(t) == Satisfies(t, calc.manifest, calc.filter_config.value)
            retained == {calc.token_records[i].probe_id :
                            i \in {j \in 1..Len(calc.token_records) :
                                      Good(calc.token_records[j])}}
            Kept(r) == r.probe_id \in retained
        IN  /\ ~calc.raised
            /\ calc.filtered_tokens = SelectSeq(calc.token_records, Kept)
            /\ calc.filtered_records = SelectSeq(calc.records, Kept)

\* C25: for a session created from plain word lists, run with
\* capture_session_batch and finalized, analyze_session_routes returns a
\* result instead of failing.
C25_EndToEndAnalysis ==
    (/\ last_call.op = "analyze_session_routes"
     /\ last_call.sid \in DOMAIN session_files
     /\ StateOf(last_call.sid) = COMPLETED) =>
        ~last_call.raised

\* the calls that write the buffer out
FlushingOps == {"flush", "flush_all", "close_all"}

\* C26: an add_record that returns has buffered the record, or, exactly when
\* the buffer reached batch_size, written the whole buffer to the file, so
\* the buffer then holds fewer than batch_size records; a flush on an empty
\* buffer, and a flush_all or close_all on writers that are closed, return
\* without changing file or buffer; repeating a flush, flush_all or close_all
\* that returned changes neither file nor buffer.
C26_FlushAndCloseIdempotent ==
    [][/\ (calc'.op = "add_record" /\ ~calc'.raised) =>
             /\ Len(calc'.records) < batch_size
             /\ IF Len(calc.records) + 1 >= batch_size
                THEN /\ calc'.records = <<>>
                     /\ calc'.file = calc.file \o calc.records
                                       \o <<calc'.log[Len(calc'.log)]>>
                ELSE /\ calc'.records
                           = Append(calc.records, calc'.log[Len(calc'.log)])
                     /\ calc'.file = calc.file
       /\ (calc'.op = "flush" /\ calc.records = <<>>) =>
             /\ ~calc'.raised
             /\ calc'.records = calc.records /\ calc'.file = calc.file
       /\ (calc'.op \in {"flush_all", "close_all"} /\ ~calc.active) =>
             /\ ~calc'.raised /\ ~calc'.active
             /\ calc'.records = calc.records /\ calc'.file = calc.file
       /\ (calc.op \in FlushingOps /\ ~calc.raised /\ calc'.op = calc.op) =>
             /\ ~calc'.raised
             /\ calc'.records = calc.records /\ calc'.file = calc.file
      ]_vars

\* C26 witness: close_all has been called on writers that were closed, after
\* an add_record filled the buffer to one below batch_size and an earlier
\* add_record wrote a full batch to the file
C26_Witness ==
    /\ calc.op = "close_all"
    /\ ~calc.was_active
    /\ Len(calc.records) = batch_size - 1
    /\ Len(calc.file) >= batch_size

\* the layer is passed over by the clustering: it has no target-position
\* record, or its clustering raises
Skipped(layer) ==
    \/ calc.clusterer[layer].raised
    \/ ~\E i \in 1..Len(calc.pca_records) :
           /\ calc.pca_records[i].token_position = 1
           /\ calc.pca_records[i].layer = layer

\* the probes with a target-position record at the layer
TargetProbes == {calc.pca_records[i].probe_id : i \in 1..Len(calc.pca_records)}
HasTargetRecord(p, layer) ==
    \E i \in 1..Len(calc.pca_records) :
        /\ calc.pca_records[i].probe_id = p
        /\ calc.pca_records[i].layer = layer
        /\ calc.pca_records[i].token_position = 1

\* the layers at which the probe has a cluster assignment
AssignedLayers(p) ==
    IF p \in Keys(calc.cluster_assignments)
    THEN DOMAIN Get(calc.cluster_assignments, p)
    ELSE {}

\* C27: in a cluster analysis a window layer without target-position records,
\* or whose clustering raises, gets no assignment; every other window layer
\* gives each of its probes the cluster its clustering found; a probe is
\* counted in a route exactly when it has an assignment at every window
\* layer; and a query whose window contains a skipped layer returns normally
\* with no routes.
C27_SkippedLayerDoesNotAbort ==
    (calc.op = "analyze_session_cluster_routes") =>
        /\ \A layer \in Range(calc.window_layers), p \in TargetProbes :
              IF Skipped(layer) \/ ~HasTargetRecord(p, layer)
              THEN layer \notin AssignedLayers(p)
              ELSE /\ layer \in AssignedLayers(p)
                   /\ Get(calc.cluster_assignments, p)[layer]
                         = calc.clusterer[layer].labels[p]
        /\ SumCounts(calc.routes)
              = Cardinality({p \in TargetProbes :
                                Range(calc.window_layers)
                                    \subseteq AssignedLayers(p)})
        /\ \A r \in 1..Len(calc.routes) :
              \A t \in 1..Len(calc.routes[r].value.tokens) :
                 LET p == calc.routes[r].value.tokens[t].probe_id
                 IN  /\ Range(calc.window_layers) \subseteq AssignedLayers(p)
                     /\ \A k \in 1..Len(calc.routes[r].key) :
                           calc.routes[r].key[k].id
                              = Get(calc.cluster_assignments, p)
                                    [calc.routes[r].key[k].layer]
        /\ (\E layer \in Range(calc.window_layers) : Skipped(layer)) =>
              /\ ~calc.raised
              /\ calc.routes = <<>>
              /\ calc.nodes = <<>> /\ calc.links = <<>>

\* C27 witness: a query over the window 0, 1, 2 in which the clustering of
\* layer 1 raised has returned without routes, and both probes have their
\* assignments at layers 0 and 2
C27_Witness ==
    /\ calc.op = "analyze_session_cluster_routes"
    /\ calc.window_layers = <<0, 1, 2>>
    /\ calc.clusterer[1].raised
    /\ ~calc.clusterer[0].raised /\ ~calc.clusterer[2].raised
    /\ \A p \in ClusteringProbes : AssignedLayers(p) = {0, 2}
    /\ ~calc.raised
    /\ calc.routes = <<>>

\* C28: a probe counted in failed_pairs leaves no record behind, so in a
\* COMPLETED session the number of TokenRecords in the tokens file equals
\* completed_pairs, which is the probe_count of the Manifest.
C28_WriteAllOrNothing ==
    \A s \in DOMAIN session_files :
        (StateOf(s) = COMPLETED /\ s \in DOMAIN manifests) =>
            /\ Len(data_lake[s]["tokens"]) = manifests[s].probe_count
            /\ session_files[s].has_counts =>
                  manifests[s].probe_count = session_files[s].completed_pairs

\* C29: whenever a call takes a session out of ACTIVE (a finalize that
\* succeeds or fails, or abort_session), the session metadata file records a
\* state other than ACTIVE, so that after a restart get_session_status does
\* not report ACTIVE for it.
C29_MetadataFollowsState ==
    [][\A s \in SessionIds :
          (/\ HeldActive(s)
           /\ ~HeldActive(s)'
           /\ last_call'.op # "restart") =>
              session_files'[s].state # ACTIVE]_vars

\* the links from a node of one layer to a node of another
LinksBetween(from, to) ==
    {l \in 1..Len(calc.links) :
        calc.links[l].source.layer = from /\ calc.links[l].target.layer = to}

\* the total count of the retained routes
RetainedCount ==
    SumOver(RetainedRoutes,
            [i \in 1..Len(calc.routes) |-> calc.routes[i].value.count])

\* C30: in every returned graph, the values of the links entering a node of
\* a layer that is neither the first nor the last of the window sum to the
\* values of the links leaving it, and the values of the links between two
\* adjacent window layers sum to the total count of the retained routes.
C30_FlowConserved ==
    GraphReturned =>
        LET layers == sorted(calc.window_layers)
        IN  /\ \A n \in 1..Len(calc.nodes) :
                  (/\ calc.nodes[n].layer # layers[1]
                   /\ calc.nodes[n].layer # layers[Len(layers)]) =>
                      SumOver(LinksEntering(calc.nodes[n].name), LinkValue)
                        = SumOver(LinksLeaving(calc.nodes[n].name), LinkValue)
            /\ \A k \in 1..(Len(layers) - 1) :
                  SumOver(LinksBetween(layers[k], layers[k + 1]), LinkValue)
                    = RetainedCount

\* C30 witness: a returned graph over the window 0, 1, 2 with a node at
\* layer 1 that two links enter and two links leave
C30_Witness ==
    /\ GraphReturned
    /\ calc.window_layers = <<0, 1, 2>>
    /\ \E n \in 1..Len(calc.nodes) :
          /\ calc.nodes[n].layer = 1
          /\ Cardinality(LinksEntering(calc.nodes[n].name)) = 2
          /\ Cardinality(LinksLeaving(calc.nodes[n].name)) = 2

====
